---- MODULE Spec2Model ----
(***************************************************************************)
(* A model of the lookup-caching subsystem of IP Checker Pro:              *)
(*   ip_checker/services/geo.py    CircuitBreaker, GeoService              *)
(*   ip_checker/services/cache.py  MemoryCache, DiskCache, HybridCache     *)
(* Every object is a record of its fields; every method is an operator     *)
(* from the object (and the clock reading) to the object after the call    *)
(* and the value returned.                                                 *)
(***************************************************************************)
EXTENDS Integers, Sequences, FiniteSets, TLC

VARIABLES
    now,      \* the reading of time.time()
    cb,       \* the CircuitBreaker object
    cbHist,   \* history of the breaker: what its callers did so far
    geo,      \* the GeoService object (its breaker is cb, its cache is hyb)
    mem,      \* the MemoryCache object
    touch,    \* history of the MemoryCache: the order of each key's last touch
    memHist,  \* history of the MemoryCache: the last call and what it found
    disk,     \* the DiskCache object, with its files
    hyb,      \* the HybridCache object (its tiers are mem and disk)
    th,       \* the threads: the call each is in, and where it stands in it
    expect,   \* history of the HybridCache: what a get of each key may return
    written,  \* history of the HybridCache: the last set entered for each key
    done,     \* history of the threads: the call that returned in the last step
    scan,     \* the connections classified so far and their security summary
    bulk,     \* the bulk_lookup call in progress: its futures and its results
    glob,     \* the module globals _global_cache and _geo_service
    locks     \* the locks of the objects: the thread holding each

vars ==
    <<now, cb, cbHist, geo, mem, touch, memHist, disk, hyb, th, expect,
      written, done, scan, bulk, glob, locks>>
auxVars == <<scan, bulk, glob, locks>>
svcVars == <<cb, cbHist, geo>>
memVars == <<mem, touch, memHist>>
hybVars == <<disk, hyb, th, expect, written, done>>

(***************************************************************************)
(* Bounds of the model.                                                    *)
(***************************************************************************)
MaxTime == 4
MaxThreshold == 2
MaxRecovery == 1
MaxProbes == 2
MaxFailures == 4
MaxMemSize == 2
MaxMemTime == 2
MaxTTL == 1

MaxDiskBytes == 5
MaxHybridTicks == 2

MaxGeoTicks == 2
MaxSeqTicks == 7
MaxDiskTime == 2
MaxGeoOneTicks == 7
MaxConns == 8
MaxBulkLen == 2
MaxBulkCalls == 2

Keys == {"k1", "k2", "k3"}
Values == {"v1", "v2"}
None == "None"

\* The addresses validate_ip accepts, and the arguments of get_location
\* called directly: an address that validate_ip accepts and one that it
\* rejects
ValidIPs == {"1.1.1.1", "8.8.8.8"}
IPs == {"1.1.1.1", "not-an-ip"}

\* The ids handed to bulk_lookup: two addresses, one of them also with a
\* leading blank, and an id that is no address
BulkIPs == {"1.1.1.1", " 1.1.1.1", "8.8.8.8", "not-an-ip"}

\* str.strip on the ids above
Strip(ip) == IF ip = " 1.1.1.1" THEN "1.1.1.1" ELSE ip

\* GeoService.get_location: cache_key = f"geo:{ip}"
CacheKey(ip) == "geo:" \o ip

\* The keys a file of the disk tier may be stored under
FileKeys == Keys \cup {CacheKey(ip) : ip \in ValidIPs}

Min(a, b) == IF a <= b THEN a ELSE b

(***************************************************************************)
(* geo.py: CircuitBreaker                                                  *)
(***************************************************************************)
STATE_CLOSED == "closed"
STATE_OPEN == "open"
STATE_HALF_OPEN == "half_open"

\* CircuitBreaker.__init__: _last_failure_time is None, read as
\* (self._last_failure_time or 0), so None is 0 here.
CircuitBreakerInit(failure_threshold, recovery_timeout, half_open_max_calls) ==
    [ failure_threshold   |-> failure_threshold,
      recovery_timeout    |-> recovery_timeout,
      half_open_max_calls |-> half_open_max_calls,
      state               |-> STATE_CLOSED,
      failure_count       |-> 0,
      success_count       |-> 0,
      last_failure_time   |-> 0,
      half_open_calls     |-> 0 ]

\* A mutant of can_execute: the breaker leaves Open without waiting.
CanExecuteNoWait(b, t) ==
    IF b.state = STATE_CLOSED THEN [cb |-> b, ret |-> TRUE]
    ELSE IF b.state = STATE_OPEN
      THEN [cb |-> [b EXCEPT !.state = STATE_HALF_OPEN, !.half_open_calls = 0],
            ret |-> TRUE]
    ELSE IF b.half_open_calls < b.half_open_max_calls
      THEN [cb |-> [b EXCEPT !.half_open_calls = @ + 1], ret |-> TRUE]
      ELSE [cb |-> b, ret |-> FALSE]

\* CircuitBreaker.can_execute at clock reading t: the breaker after the call
\* and the value returned.
CanExecute(b, t) ==
    IF b.state = STATE_CLOSED THEN [cb |-> b, ret |-> TRUE]
    ELSE IF b.state = STATE_OPEN
      THEN IF t - b.last_failure_time > b.recovery_timeout
             THEN [cb |-> [b EXCEPT !.state = STATE_HALF_OPEN,
                                    !.half_open_calls = 0],
                   ret |-> TRUE]
             ELSE [cb |-> b, ret |-> FALSE]
    ELSE IF b.half_open_calls < b.half_open_max_calls
      THEN [cb |-> [b EXCEPT !.half_open_calls = @ + 1], ret |-> TRUE]
      ELSE [cb |-> b, ret |-> FALSE]

\* A mutant of record_success: a success closes the breaker whatever its state.
RecordSuccessAnyState(b) ==
    [b EXCEPT !.state = STATE_CLOSED, !.failure_count = 0, !.success_count = 0]

\* A mutant of record_success: a success while Closed keeps the failure count.
RecordSuccessKeepsCount(b) ==
    IF b.state = STATE_HALF_OPEN
      THEN IF b.success_count + 1 >= b.half_open_max_calls
             THEN [b EXCEPT !.state = STATE_CLOSED,
                            !.failure_count = 0,
                            !.success_count = 0]
             ELSE [b EXCEPT !.success_count = @ + 1]
      ELSE b

\* A mutant of record_success: successes while HalfOpen are counted and
\* never close the breaker.
RecordSuccessNeverCloses(b) ==
    IF b.state = STATE_HALF_OPEN
      THEN [b EXCEPT !.success_count = @ + 1]
      ELSE [b EXCEPT !.failure_count = 0]

\* CircuitBreaker.record_success
RecordSuccess(b) ==
    IF b.state = STATE_HALF_OPEN
      THEN IF b.success_count + 1 >= b.half_open_max_calls
             THEN [b EXCEPT !.state = STATE_CLOSED,
                            !.failure_count = 0,
                            !.success_count = 0]
             ELSE [b EXCEPT !.success_count = @ + 1]
      ELSE [b EXCEPT !.failure_count = 0]

\* A mutant of record_failure: the time of the failure is not recorded.
RecordFailureKeepsTime(b, t) ==
    LET c == [b EXCEPT !.failure_count = @ + 1]
    IN  IF c.state = STATE_HALF_OPEN
          THEN [c EXCEPT !.state = STATE_OPEN]
        ELSE IF c.failure_count >= c.failure_threshold
          THEN [c EXCEPT !.state = STATE_OPEN]
          ELSE c

\* CircuitBreaker.record_failure at clock reading t
RecordFailure(b, t) ==
    LET c == [b EXCEPT !.failure_count = @ + 1, !.last_failure_time = t]
    IN  IF c.state = STATE_HALF_OPEN
          THEN [c EXCEPT !.state = STATE_OPEN]
        ELSE IF c.failure_count >= c.failure_threshold
          THEN [c EXCEPT !.state = STATE_OPEN]
          ELSE c

(***************************************************************************)
(* History of the breaker, kept beside it (no field of the object):        *)
(*   streak    failures recorded since the last recorded success           *)
(*   admitted  calls can_execute admitted in the current HalfOpen period,  *)
(*             the call that opened the period included (0 outside one)    *)
(*   successes successes recorded since the breaker last entered HalfOpen  *)
(*   edges     the state changes made so far, as <<from, to>> pairs         *)
(***************************************************************************)
CbHistInit == [streak |-> 0, admitted |-> 0, successes |-> 0, edges |-> {}]

EdgesAfter(h, b, c) ==
    IF c.state = b.state THEN h.edges ELSE h.edges \cup {<<b.state, c.state>>}

HistAfterCanExecute(h, b, r) ==
    IF r.cb.state # STATE_HALF_OPEN THEN [h EXCEPT !.admitted = 0]
    ELSE IF b.state # STATE_HALF_OPEN
      THEN [h EXCEPT !.admitted = 1, !.successes = 0,
                     !.edges = EdgesAfter(h, b, r.cb)]
      ELSE [h EXCEPT !.admitted = IF r.ret THEN @ + 1 ELSE @]

HistAfterSuccess(h, b, c) ==
    [h EXCEPT !.streak = 0,
              !.successes = Min(@ + 1, MaxProbes + 2),
              !.admitted = IF c.state = STATE_HALF_OPEN THEN @ ELSE 0,
              !.edges = EdgesAfter(h, b, c)]

HistAfterFailure(h, b, c) ==
    [h EXCEPT !.streak = @ + 1,
              !.admitted = IF c.state = STATE_HALF_OPEN THEN @ ELSE 0,
              !.edges = EdgesAfter(h, b, c)]

(***************************************************************************)
(* cache.py: CacheEntry and MemoryCache.  _cache, an OrderedDict, is the    *)
(* sequence of its entries in the dictionary's order, oldest first.         *)
(***************************************************************************)

\* CacheEntry.is_expired at clock reading t
IsExpired(e, t) == t > e.expires_at

\* CacheEntry(value=value, expires_at=expires_at), stored under key
CacheEntry(key, value, expires_at) ==
    [key |-> key, value |-> value, expires_at |-> expires_at]

\* MemoryCache.__init__
MemoryCacheInit(max_size) == [max_size |-> max_size, cache |-> <<>>]

CacheKeys(c) == {c[i].key : i \in 1..Len(c)}

\* self._cache[key], for a key in the dictionary
EntryOf(c, key) == c[CHOOSE i \in 1..Len(c) : c[i].key = key]

\* del self._cache[key]
Without(c, key) == SelectSeq(c, LAMBDA e : e.key # key)

\* self._cache.move_to_end(key) after self._cache[key] = e
MovedToEnd(c, e) == Append(Without(c, e.key), e)

\* A mutant of get: a hit leaves the entry where it is in the dictionary.
MemoryGetNoMove(m, key, t) ==
    IF key \notin CacheKeys(m.cache) THEN [m |-> m, ret |-> None]
    ELSE LET e == EntryOf(m.cache, key)
         IN  IF IsExpired(e, t)
               THEN [m |-> [m EXCEPT !.cache = Without(@, key)], ret |-> None]
               ELSE [m |-> m, ret |-> e.value]

\* A mutant of get: an entry that has run out is reported as a miss and
\* left in the dictionary.
MemoryGetKeepsExpired(m, key, t) ==
    IF key \notin CacheKeys(m.cache) THEN [m |-> m, ret |-> None]
    ELSE LET e == EntryOf(m.cache, key)
         IN  IF IsExpired(e, t)
               THEN [m |-> m, ret |-> None]
               ELSE [m |-> [m EXCEPT !.cache = MovedToEnd(@, e)],
                     ret |-> e.value]

\* MemoryCache.get at clock reading t: the cache after the call and the value
\* returned.
MemoryGet(m, key, t) ==
    IF key \notin CacheKeys(m.cache) THEN [m |-> m, ret |-> None]
    ELSE LET e == EntryOf(m.cache, key)
         IN  IF IsExpired(e, t)
               THEN [m |-> [m EXCEPT !.cache = Without(@, key)], ret |-> None]
               ELSE [m |-> [m EXCEPT !.cache = MovedToEnd(@, e)],
                     ret |-> e.value]

\* The entries left by the loop
\*     while len(self._cache) >= self._max_size: del the oldest
\* when it ends; with max_size <= 0 it empties the dictionary and then
\* next(iter(self._cache)) raises StopIteration.
AfterEviction(c, max_size) ==
    IF Len(c) < max_size THEN c
    ELSE IF max_size <= 0 THEN <<>>
    ELSE SubSeq(c, Len(c) - max_size + 2, Len(c))

\* A mutant of set: a full cache takes the new key without evicting.
MemorySetNoEvict(m, key, value, ttl, t) ==
    LET e == CacheEntry(key, value, t + ttl)
    IN  IF key \in CacheKeys(m.cache)
          THEN [m |-> [m EXCEPT !.cache = MovedToEnd(@, e)], raised |-> FALSE]
          ELSE [m |-> [m EXCEPT !.cache = Append(@, e)], raised |-> FALSE]

\* MemoryCache.set at clock reading t: the cache after the call, and whether
\* the call raised.
MemorySet(m, key, value, ttl, t) ==
    LET e == CacheEntry(key, value, t + ttl)
    IN  IF key \in CacheKeys(m.cache)
          THEN [m |-> [m EXCEPT !.cache = MovedToEnd(@, e)], raised |-> FALSE]
        ELSE IF m.max_size <= 0
          THEN [m |-> [m EXCEPT !.cache = AfterEviction(@, m.max_size)],
                raised |-> TRUE]
          ELSE [m |-> [m EXCEPT !.cache =
                                  Append(AfterEviction(@, m.max_size), e)],
                raised |-> FALSE]

\* MemoryCache.delete
MemoryDelete(m, key) ==
    IF key \in CacheKeys(m.cache)
      THEN [m |-> [m EXCEPT !.cache = Without(@, key)], ret |-> TRUE]
      ELSE [m |-> m, ret |-> FALSE]

\* MemoryCache.clear
MemoryClear(m) == [m EXCEPT !.cache = <<>>]

\* MemoryCache.cleanup_expired at clock reading t
MemoryCleanupExpired(m, t) ==
    [m |-> [m EXCEPT !.cache = SelectSeq(@, LAMBDA e : ~IsExpired(e, t))],
     ret |-> Cardinality({i \in 1..Len(m.cache) : IsExpired(m.cache[i], t)})]

(***************************************************************************)
(* History of the MemoryCache, kept beside it.  touch[k] ranks the keys by  *)
(* the time of their last touch (a set, or a get that returned the value):  *)
(* 0 for a key never touched, and a larger rank for a later touch.          *)
(* memHist is the call made by the last step (op "none" when the last step  *)
(* was no call on the cache): its arguments, what it returned and the keys  *)
(* it removed from the dictionary.                                          *)
(***************************************************************************)
TouchInit == [k \in Keys |-> 0]

Touched(tc, key) ==
    LET top == [tc EXCEPT ![key] = Cardinality(Keys) + 1]
    IN  [k \in Keys |->
           IF top[k] = 0 THEN 0
           ELSE Cardinality({j \in Keys : top[j] > 0 /\ top[j] <= top[k]})]

MemHistInit ==
    [op |-> "none", key |-> None, value |-> None, ttl |-> 0,
     ret |-> None, raised |-> FALSE, removed |-> {}]

MemCall(op, key, value, ttl, ret, raised, after) ==
    [op |-> op, key |-> key, value |-> value, ttl |-> ttl,
     ret |-> ret, raised |-> raised,
     removed |-> CacheKeys(mem.cache) \ CacheKeys(after.cache)]

(***************************************************************************)
(* cache.py: DiskCache.  _index, a dict, is the sequence of its rows in     *)
(* the dictionary's order; files[k] is the content of the cache file of     *)
(* key k: <<e>> for the pickled CacheEntry e, NoFile when there is no       *)
(* readable file; saved is the content of the index file.                   *)
(***************************************************************************)
NoFile == <<>>

\* len(pickle.dumps(entry)): the size of the file written for a value
SizeOf(value) == IF value = "v1" THEN 2 ELSE 3

\* DiskCache.__init__ on an empty cache directory
DiskCacheInit(max_size_bytes) ==
    [max_size_bytes |-> max_size_bytes,
     index |-> <<>>,
     files |-> [k \in FileKeys |-> NoFile],
     saved |-> <<>>,
     torn |-> FALSE]

\* DiskCache._save_index.  saved is what the index file holds; torn, that
\* the file was opened for writing and the dump has not ended.
SaveIndex(d) == [d EXCEPT !.saved = d.index, !.torn = FALSE]

\* _save_index, line 157: open(self._index_file, 'w') empties the file
SaveIndexOpen(d) == [d EXCEPT !.saved = <<>>, !.torn = TRUE]

\* DiskCache.__init__ on the directory d was left with: _load_index reads
\* the index file, and starts from {} when json.load raises
LoadIndex(d) == [d EXCEPT !.index = IF d.torn THEN <<>> ELSE d.saved]

\* A mutant of delete: the row and the file are left where they are.
DiskDeleteKeepsRow(d, key) ==
    [d |-> d, ret |-> key \in CacheKeys(d.index)]

\* DiskCache.delete: the cache after the call and the value returned
DiskDelete(d, key) ==
    IF key \in CacheKeys(d.index)
      THEN [d |-> SaveIndex([d EXCEPT !.index = Without(@, key),
                                      !.files[key] = NoFile]),
            ret |-> TRUE]
      ELSE [d |-> d, ret |-> FALSE]

\* A mutant of get: a row whose file is missing or unreadable is reported
\* as a miss and left in the index.
DiskGetKeepsStaleRow(d, key, t) ==
    IF key \notin CacheKeys(d.index) THEN [d |-> d, ret |-> None]
    ELSE IF t > EntryOf(d.index, key).expires_at
      THEN [d |-> DiskDelete(d, key).d, ret |-> None]
    ELSE IF d.files[key] = NoFile
      THEN [d |-> d, ret |-> None]
    ELSE IF IsExpired(d.files[key][1], t)
      THEN [d |-> DiskDelete(d, key).d, ret |-> None]
      ELSE [d |-> d, ret |-> d.files[key][1].value]

\* DiskCache.get at clock reading t: the cache after the call and the value
\* returned
DiskGet(d, key, t) ==
    IF key \notin CacheKeys(d.index) THEN [d |-> d, ret |-> None]
    ELSE IF t > EntryOf(d.index, key).expires_at
      THEN [d |-> DiskDelete(d, key).d, ret |-> None]
    ELSE IF d.files[key] = NoFile
      THEN [d |-> DiskDelete(d, key).d, ret |-> None]
    ELSE IF IsExpired(d.files[key][1], t)
      THEN [d |-> DiskDelete(d, key).d, ret |-> None]
      ELSE [d |-> d, ret |-> d.files[key][1].value]

RECURSIVE TotalSize(_)
\* sum(m['size'] for m in self._index.values())
TotalSize(index) ==
    IF index = <<>> THEN 0 ELSE Head(index).size + TotalSize(Tail(index))

RECURSIVE EvictOldest(_, _, _)
\* The loop of _cleanup_if_needed over sorted_entries (no row has an
\* 'accessed_at', so the stable sort keeps the dictionary's order):
\* delete the first row while total_size > max_size_bytes * 0.6.
EvictOldest(d, entries, total_size) ==
    IF total_size * 10 > d.max_size_bytes * 6 /\ entries # <<>>
      THEN EvictOldest(DiskDelete(d, Head(entries).key).d, Tail(entries),
                       total_size - Head(entries).size)
      ELSE d

\* DiskCache._cleanup_if_needed
CleanupIfNeeded(d) ==
    IF TotalSize(d.index) * 10 < d.max_size_bytes * 8 THEN d
    ELSE EvictOldest(d, d.index, TotalSize(d.index))

\* self._index[key] = row: a key of the dict keeps its place, a new key goes
\* to the end
WithRow(index, row) ==
    IF row.key \in CacheKeys(index)
      THEN [i \in 1..Len(index) |->
              IF index[i].key = row.key THEN row ELSE index[i]]
      ELSE Append(index, row)

\* DiskCache.set at clock reading t
DiskSet(d, key, value, ttl, t) ==
    LET c == CleanupIfNeeded(d)
        e == CacheEntry(key, value, t + ttl)
    IN  SaveIndex([c EXCEPT
          !.files[key] = <<e>>,
          !.index = WithRow(@, [key |-> key, expires_at |-> e.expires_at,
                                size |-> SizeOf(value)])])

\* What may go wrong inside the try block of DiskCache.set (the exception
\* is logged and swallowed): open(cache_file, 'wb') raises and the file of
\* an earlier set stays as it was, or pickle.dump raises after the open
\* truncated the file, which can no longer be read (as a missing file, it
\* makes get's read raise).  Either way the index keeps the row it had.
FAULT_OPEN == "open"
FAULT_DUMP == "dump"
Faults == {FAULT_OPEN, FAULT_DUMP}

\* DiskCache.set at clock reading t when fault happens
DiskSetFaulty(d, key, value, ttl, t, fault) ==
    LET c == CleanupIfNeeded(d)
    IN  IF fault = FAULT_OPEN THEN c
        ELSE [c EXCEPT !.files[key] = NoFile]

\* DiskCache.clear
DiskClear(d) ==
    SaveIndex([d EXCEPT !.index = <<>>, !.files = [k \in FileKeys |-> NoFile]])

(***************************************************************************)
(* cache.py: HybridCache.  Its methods take the tiers' locks one call at a  *)
(* time, so a method is a sequence of steps, one per call on a tier, and    *)
(* the steps of different threads interleave.                               *)
(***************************************************************************)
PROMOTE_TTL == 60
CLEANUP_INTERVAL == 300
MEMORY_TTL_CEILING == 300

\* HybridCache.__init__ at clock reading t
HybridCacheInit(t) ==
    [cleanup_interval |-> CLEANUP_INTERVAL, last_cleanup |-> t]

\* mem_ttl = memory_ttl or min(ttl, 300); the optional memory_ttl is <<>>
\* for None and <<n>> for the number n
MemTTL(ttl, memory_ttl) ==
    IF memory_ttl # <<>> /\ memory_ttl[1] # 0
      THEN memory_ttl[1]
      ELSE Min(ttl, MEMORY_TTL_CEILING)

\* HybridCache._maybe_cleanup at clock reading t: the object and its memory
\* tier after the call
MaybeCleanup(h, m, t) ==
    IF t - h.last_cleanup > h.cleanup_interval
      THEN [h |-> [h EXCEPT !.last_cleanup = t],
            m |-> MemoryCleanupExpired(m, t).m]
      ELSE [h |-> h, m |-> m]

(***************************************************************************)
(* geo.py: GeoService.  Its breaker is built with the defaults of          *)
(* CircuitBreaker.__init__; ipapi is whether the optional ipapi library    *)
(* could be imported.  A lookup result is its status.                      *)
(***************************************************************************)
DEFAULT_FAILURE_THRESHOLD == 5
DEFAULT_RECOVERY_TIMEOUT == 60
DEFAULT_HALF_OPEN_MAX_CALLS == 3
GEO_CACHE_TTL == 3600
GEO_LOOKUP_LIMIT == 50
NEGATIVE_CACHE_TTL == 300

STATUS_SUCCESS == "success"
STATUS_FAIL == "fail"
STATUS_ERROR == "error"
MSG_INVALID_IP == "Invalid IP address"
MSG_UNAVAILABLE == "Service temporarily unavailable (circuit breaker open)"
PROVIDER_IPAPI == "ipapi.co"
PROVIDER_IP_API_COM == "ip-api.com"

\* GeoService.__init__: whether the ipapi library is there, and the
\* configured GEO_CACHE_TTL and GEO_LOOKUP_LIMIT
GeoServiceInit(ipapi, geo_cache_ttl, geo_lookup_limit) ==
    [ipapi |-> ipapi, geo_cache_ttl |-> geo_cache_ttl,
     geo_lookup_limit |-> geo_lookup_limit]

\* A mutant of validate_ip: every id passes.
ValidateIpAny(ip) == TRUE

\* GeoService.validate_ip
ValidateIp(ip) == ip \in ValidIPs

(***************************************************************************)
(* The threads.  A thread is idle or inside a call; pc is the step it takes *)
(* next.  Two fields are history: exp, what the call may return (see        *)
(* expect), and read_disk, whether a get has read the disk tier.  done is   *)
(* the call that returned in the last step (op "none" when none did): the   *)
(* thread, the call and what it returned (ret for a get, deleted for a      *)
(* delete).                                                                 *)
(***************************************************************************)
Threads == {"t1", "t2"}
Anything == "Anything"
Absent == "Absent"

ThreadInit ==
    [pc |-> "idle", op |-> "none", key |-> None, value |-> None, ttl |-> 0,
     memory_ttl |-> <<>>, deleted |-> FALSE, exp |-> Anything,
     read_disk |-> FALSE, ip |-> None, providers |-> <<>>]

NoneDone ==
    [thread |-> None, op |-> "none", key |-> None, ret |-> None,
     deleted |-> FALSE, exp |-> Anything, read_disk |-> FALSE,
     ip |-> None, cached |-> FALSE, message |-> None, providers |-> <<>>]

\* The call of thread t returning ret (a get) or deleted (a delete)
Returned(t, call, ret, deleted) ==
    [NoneDone EXCEPT !.thread = t, !.op = call.op, !.key = call.key,
                     !.ret = ret, !.deleted = deleted, !.exp = call.exp,
                     !.read_disk = call.read_disk]

\* No set has been entered for any key.
WrittenInit == [k \in Keys |-> <<>>]

\* The set HybridCache.set(key, value, ttl, memory_ttl) entered at clock
\* reading t: its value, the time its ttl runs out, and whether it came
\* without a memory_ttl
WrittenBy(value, ttl, memory_ttl, t) ==
    <<[value |-> value, deadline |-> t + ttl, plain |-> memory_ttl = <<>>]>>

\* Whether some thread other than t is inside set(key)
SetInFlight(t, key) ==
    \E u \in Threads \ {t} : th[u].op = "set" /\ th[u].key = key

\* The threads when t enters set(key): no call on key that is in flight
\* may rely on what came before.
EnterSet(t, key, value, ttl, memory_ttl) ==
    [u \in Threads |->
       IF u = t
         THEN [ThreadInit EXCEPT !.pc = "set_disk", !.op = "set",
                                 !.key = key, !.value = value, !.ttl = ttl,
                                 !.memory_ttl = memory_ttl,
                                 !.exp = IF SetInFlight(t, key)
                                           THEN Anything ELSE value]
       ELSE IF th[u].key = key
         THEN [th[u] EXCEPT !.exp = Anything]
         ELSE th[u]]

(***************************************************************************)
(* The clock.                                                              *)
(***************************************************************************)
(***************************************************************************)
(* app_improved.py: classify_connection and aggregate_security, and        *)
(* services/security.py: SecurityAnalyzer._classify_risk.  A geo dict is   *)
(* its 'status', geo_status (None when the dict has none); a risk text is  *)
(* its kind.                                                               *)
(***************************************************************************)
SUSPICIOUS_PORTS == {23, 69, 1337, 4444, 5555, 6667, 8081, 1433, 3389}
SECURE_PORTS == {22, 443, 993, 995, 5061}

LEVEL_INFO == "info"
LEVEL_WARNING == "warning"
LEVEL_DANGER == "danger"

RISK_PORT == "port is commonly abused"
RISK_STATE == "state"
RISK_GEO == "geolocation lookup failed"

PrivateIPs == {"10.0.0.1"}

\* is_private_ip
IsPrivateIp(ip) == ip \in PrivateIPs

\* A mutant of classify_connection: the state of the connection is looked
\* at before the port, and decides.
ClassifyConnectionStateFirst(remote_port, status, geo_status, remote_ip) ==
    IF remote_ip # None /\ IsPrivateIp(remote_ip)
      THEN [level |-> LEVEL_INFO, risks |-> <<>>]
    ELSE IF status \notin {"ESTABLISHED", "TIME_WAIT"}
      THEN [level |-> LEVEL_WARNING, risks |-> <<RISK_STATE>>]
    ELSE IF remote_port \in SUSPICIOUS_PORTS
      THEN [level |-> LEVEL_DANGER, risks |-> <<RISK_PORT>>]
    ELSE IF geo_status \notin {None, "success"}
      THEN [level |-> LEVEL_WARNING, risks |-> <<RISK_GEO>>]
      ELSE [level |-> LEVEL_INFO, risks |-> <<>>]

\* classify_connection(remote_port, status, geo_status, remote_ip): the level and
\* the risks returned
ClassifyConnection(remote_port, status, geo_status, remote_ip) ==
    LET port == remote_port \in SUSPICIOUS_PORTS
        state == status \notin {"ESTABLISHED", "TIME_WAIT"}
        failed == geo_status \notin {None, "success"}
        r1 == IF port THEN <<RISK_PORT>> ELSE <<>>
        l1 == IF port THEN LEVEL_DANGER ELSE LEVEL_INFO
        r2 == IF state THEN Append(r1, RISK_STATE) ELSE r1
        l2 == IF state /\ l1 # LEVEL_DANGER THEN LEVEL_WARNING ELSE l1
        r3 == IF failed THEN Append(r2, RISK_GEO) ELSE r2
        l3 == IF failed /\ l2 = LEVEL_INFO THEN LEVEL_WARNING ELSE l2
    IN  IF remote_ip # None /\ IsPrivateIp(remote_ip)
          THEN [level |-> LEVEL_INFO, risks |-> <<>>]
          ELSE [level |-> l3, risks |-> r3]

\* SecurityAnalyzer._classify_risk(remote_port, status, geo_status, remote_ip,
\* is_private)
ClassifyRisk(remote_port, status, geo_status, remote_ip, is_private) ==
    LET state == status \notin {"ESTABLISHED", "TIME_WAIT", "CLOSE_WAIT"}
        failed == geo_status \notin {None, "success"}
        r1 == IF state THEN <<RISK_STATE>> ELSE <<>>
        r2 == IF failed THEN Append(r1, RISK_GEO) ELSE r1
    IN  IF is_private THEN [level |-> LEVEL_INFO, risks |-> <<>>]
        ELSE IF remote_port \in SUSPICIOUS_PORTS
          THEN [level |-> LEVEL_DANGER, risks |-> <<RISK_PORT>>]
        ELSE IF r2 = <<>> THEN [level |-> LEVEL_INFO, risks |-> <<>>]
        ELSE IF state THEN [level |-> LEVEL_WARNING, risks |-> r2]
        ELSE [level |-> LEVEL_INFO, risks |-> r2]

\* sum(1 for c in connections if P(c))
Count(connections, P(_)) == Len(SelectSeq(connections, P))

Max(a, b) == IF a >= b THEN a ELSE b

\* A mutant of aggregate_security: the score is not clamped.
AggregateSecurityUnclamped(connections) ==
    LET warnings == Count(connections, LAMBDA c : c.risk_level = LEVEL_WARNING)
        threats == Count(connections, LAMBDA c : c.risk_level = LEVEL_DANGER)
        total == Len(connections)
        secure == Count(connections, LAMBDA c : c.remote_port \in SECURE_PORTS)
        suspicious_ports ==
            Count(connections, LAMBDA c : c.remote_port \in SUSPICIOUS_PORTS)
        geo_fail == Count(connections, LAMBDA c : c.geo \notin {None, "success"})
        score == 100 - warnings * 4 - threats * 10
                     - Min(suspicious_ports * 3, 20) - Min(geo_fail, 10)
                     - (IF total # 0 /\ secure * 5 < total THEN 5 ELSE 0)
    IN  [warnings |-> warnings, threats |-> threats, secure |-> secure,
         suspicious_ports |-> suspicious_ports, geo_failures |-> geo_fail,
         total_connections |-> total, score |-> score,
         grade |-> IF score >= 85 THEN "Excellent"
                   ELSE IF score >= 70 THEN "Good"
                   ELSE IF score >= 55 THEN "Fair" ELSE "Poor"]

\* aggregate_security(connections)
AggregateSecurity(connections) ==
    LET warnings == Count(connections, LAMBDA c : c.risk_level = LEVEL_WARNING)
        threats == Count(connections, LAMBDA c : c.risk_level = LEVEL_DANGER)
        total == Len(connections)
        secure == Count(connections, LAMBDA c : c.remote_port \in SECURE_PORTS)
        suspicious_ports ==
            Count(connections, LAMBDA c : c.remote_port \in SUSPICIOUS_PORTS)
        geo_fail == Count(connections, LAMBDA c : c.geo \notin {None, "success"})
        raw == 100 - warnings * 4 - threats * 10
                   - Min(suspicious_ports * 3, 20) - Min(geo_fail, 10)
                   - (IF total # 0 /\ secure * 5 < total THEN 5 ELSE 0)
        score == Max(0, Min(100, raw))
    IN  [warnings |-> warnings, threats |-> threats, secure |-> secure,
         suspicious_ports |-> suspicious_ports, geo_failures |-> geo_fail,
         total_connections |-> total, score |-> score,
         grade |-> IF score >= 85 THEN "Excellent"
                   ELSE IF score >= 70 THEN "Good"
                   ELSE IF score >= 55 THEN "Fair" ELSE "Poor"]

\* No classification was called, no connection was collected and no
\* summary was made.
NoCall ==
    [fn |-> "none", remote_port |-> 0, status |-> None, geo |-> None,
     remote_ip |-> None, level |-> None, risks |-> <<>>]

ScanInit == [call |-> NoCall, connections |-> <<>>, security |-> <<>>]

\* No bulk_lookup was called.  ips and max_workers are the arguments of
\* the last call, submitted the ids handed to the executor, results the
\* list the call builds, and calls the number of calls made.
BulkInit ==
    [ips |-> <<>>, max_workers |-> 0, submitted |-> {}, results |-> <<>>,
     pc |-> "idle", calls |-> 0]

\* cache.py line 390 and geo.py line 449: _global_cache = None and
\* _geo_service = None.  An object is the number of its creation, and 0 is
\* None.  caches counts the HybridCache objects created, breakers the
\* CircuitBreaker objects; services lists the GeoService objects with the
\* cache and the breaker each holds.  local[t] is the object a thread has in
\* hand inside a call; got_cache[t] and got_service[t] are history: what the
\* last get_cache() and get_geo_service() of the thread returned.
GlobInit ==
    [global_cache |-> 0, geo_service |-> 0, caches |-> 0, breakers |-> 0,
     services |-> <<>>,
     local |-> [t \in Threads |-> 0],
     got_cache |-> [t \in Threads |-> 0],
     got_service |-> [t \in Threads |-> 0]]

\* threading.RLock() and threading.Lock() of the constructors: no lock is
\* held.  held[l].owner is the thread inside lock l and held[l].count how
\* often it has entered; todo[t] is what thread t has still to do with the
\* locks before its call returns.
LockNames == {"memory", "disk", "hybrid", "breaker", "stats"}

LocksInit ==
    [held |-> [l \in LockNames |-> [owner |-> None, count |-> 0]],
     todo |-> [t \in Threads |-> <<>>]]

Advance(limit) ==
    /\ now < limit
    /\ now' = now + 1
    /\ memHist' = MemHistInit
    /\ done' = NoneDone
    /\ UNCHANGED <<svcVars, written, auxVars, mem, touch, disk, hyb, th, expect>>

(***************************************************************************)
(* The breaker driven directly: any caller may call can_execute,           *)
(* record_success and record_failure at any time.                          *)
(***************************************************************************)
InitCB ==
    /\ now = 0
    /\ \E ft \in 1..MaxThreshold, rt \in 0..MaxRecovery, hm \in 1..MaxProbes :
          cb = CircuitBreakerInit(ft, rt, hm)
    /\ cbHist = CbHistInit
    /\ geo = GeoServiceInit(TRUE, GEO_CACHE_TTL, GEO_LOOKUP_LIMIT)
    /\ mem = MemoryCacheInit(1)
    /\ touch = TouchInit
    /\ memHist = MemHistInit
    /\ disk = DiskCacheInit(MaxDiskBytes)
    /\ hyb = HybridCacheInit(0)
    /\ th = [t \in Threads |-> ThreadInit]
    /\ expect = [k \in Keys |-> Anything]
    /\ written = WrittenInit
    /\ done = NoneDone
    /\ scan = ScanInit
    /\ bulk = BulkInit
    /\ glob = GlobInit
    /\ locks = LocksInit

CallCanExecute ==
    LET r == CanExecute(cb, now)
    IN  /\ cb' = r.cb
        /\ cbHist' = HistAfterCanExecute(cbHist, cb, r)
        /\ UNCHANGED <<now, geo, written, auxVars, memVars, hybVars>>

CallRecordSuccess ==
    /\ cb' = RecordSuccess(cb)
    /\ cbHist' = HistAfterSuccess(cbHist, cb, cb')
    /\ UNCHANGED <<now, geo, written, auxVars, memVars, hybVars>>

CallRecordFailure ==
    /\ cb.failure_count < MaxFailures
    /\ cb' = RecordFailure(cb, now)
    /\ cbHist' = HistAfterFailure(cbHist, cb, cb')
    /\ UNCHANGED <<now, geo, written, auxVars, memVars, hybVars>>

TickCB == Advance(MaxTime)

NextCB == CallCanExecute \/ CallRecordSuccess \/ CallRecordFailure \/ TickCB

SpecCB == InitCB /\ [][NextCB]_vars

(***************************************************************************)
(* The MemoryCache driven directly.  Every method runs under the cache's    *)
(* lock, so the calls of any number of threads happen one after another.    *)
(***************************************************************************)
InitMem ==
    /\ now = 0
    /\ cb = CircuitBreakerInit(1, 0, 1)
    /\ cbHist = CbHistInit
    /\ geo = GeoServiceInit(TRUE, GEO_CACHE_TTL, GEO_LOOKUP_LIMIT)
    /\ \E n \in 0..MaxMemSize : mem = MemoryCacheInit(n)
    /\ touch = TouchInit
    /\ memHist = MemHistInit
    /\ disk = DiskCacheInit(MaxDiskBytes)
    /\ hyb = HybridCacheInit(0)
    /\ th = [t \in Threads |-> ThreadInit]
    /\ expect = [k \in Keys |-> Anything]
    /\ written = WrittenInit
    /\ done = NoneDone
    /\ scan = ScanInit
    /\ bulk = BulkInit
    /\ glob = GlobInit
    /\ locks = LocksInit

CallMemoryGet(key) ==
    LET r == MemoryGet(mem, key, now)
    IN  /\ mem' = r.m
        /\ touch' = IF r.ret # None THEN Touched(touch, key) ELSE touch
        /\ memHist' = MemCall("get", key, None, 0, r.ret, FALSE, r.m)
        /\ UNCHANGED <<now, svcVars, written, auxVars, hybVars>>

CallMemorySet(key, value, ttl) ==
    LET r == MemorySet(mem, key, value, ttl, now)
    IN  /\ mem' = r.m
        /\ touch' = IF r.raised THEN touch ELSE Touched(touch, key)
        /\ memHist' = MemCall("set", key, value, ttl, None, r.raised, r.m)
        /\ UNCHANGED <<now, svcVars, written, auxVars, hybVars>>

CallMemoryDelete(key) ==
    LET r == MemoryDelete(mem, key)
    IN  /\ mem' = r.m
        /\ memHist' = MemCall("delete", key, None, 0, r.ret, FALSE, r.m)
        /\ UNCHANGED <<now, svcVars, written, auxVars, touch, hybVars>>

CallMemoryClear ==
    /\ mem' = MemoryClear(mem)
    /\ memHist' = MemCall("clear", None, None, 0, None, FALSE, mem')
    /\ UNCHANGED <<now, svcVars, written, auxVars, touch, hybVars>>

CallMemoryCleanupExpired ==
    LET r == MemoryCleanupExpired(mem, now)
    IN  /\ mem' = r.m
        /\ memHist' = MemCall("cleanup_expired", None, None, 0, r.ret, FALSE, r.m)
        /\ UNCHANGED <<now, svcVars, written, auxVars, touch, hybVars>>

TickMem == Advance(MaxMemTime)

NextMem ==
    \/ \E key \in Keys : CallMemoryGet(key)
    \/ \E key \in Keys, value \in Values, ttl \in 0..MaxTTL :
          CallMemorySet(key, value, ttl)
    \/ \E key \in Keys : CallMemoryDelete(key)
    \/ CallMemoryClear
    \/ CallMemoryCleanupExpired
    \/ TickMem

SpecMem == InitMem /\ [][NextMem]_vars

(***************************************************************************)
(* The DiskCache driven directly.  Every method runs under the cache's     *)
(* lock, so the calls of any number of threads happen one after another.   *)
(* done' is the call made in the step, and touch is here the order in      *)
(* which the entries were last read by get.                                *)
(***************************************************************************)
DiskCall(op, key, ret, deleted) ==
    [NoneDone EXCEPT !.op = op, !.key = key, !.ret = ret, !.deleted = deleted]

\* The order of the last read of each entry of the disk cache d (0 for a
\* key that has no row, or whose entry was not read since it was set), kept
\* in touch
DiskTouch(tc, d) ==
    LET live == [k \in Keys |-> IF k \in CacheKeys(d.index) THEN tc[k] ELSE 0]
    IN  [k \in Keys |->
           IF live[k] = 0 THEN 0
           ELSE Cardinality({j \in Keys : live[j] > 0 /\ live[j] <= live[k]})]

InitDisk ==
    /\ now = 0
    /\ cb = CircuitBreakerInit(1, 0, 1)
    /\ cbHist = CbHistInit
    /\ geo = GeoServiceInit(TRUE, GEO_CACHE_TTL, GEO_LOOKUP_LIMIT)
    /\ mem = MemoryCacheInit(1)
    /\ touch = TouchInit
    /\ memHist = MemHistInit
    /\ disk = DiskCacheInit(MaxDiskBytes)
    /\ hyb = HybridCacheInit(0)
    /\ th = [t \in Threads |-> ThreadInit]
    /\ expect = [k \in Keys |-> Anything]
    /\ written = WrittenInit
    /\ done = NoneDone
    /\ scan = ScanInit
    /\ bulk = BulkInit
    /\ glob = GlobInit
    /\ locks = LocksInit

CallDiskGet(key) ==
    LET r == DiskGet(disk, key, now)
    IN  /\ disk' = r.d
        /\ touch' = DiskTouch(IF r.ret # None THEN Touched(touch, key)
                                               ELSE touch, disk')
        /\ done' = DiskCall("disk_get", key, r.ret,
                             key \in CacheKeys(disk.index) \ CacheKeys(r.d.index))
        /\ UNCHANGED <<now, svcVars, written, auxVars, mem, memHist, hyb, th, expect>>

CallDiskSet(key, value, ttl) ==
    /\ disk' = DiskSet(disk, key, value, ttl, now)
    /\ touch' = DiskTouch([touch EXCEPT ![key] = 0], disk')
    /\ done' = DiskCall("disk_set", key, None, FALSE)
    /\ UNCHANGED <<now, svcVars, written, auxVars, mem, memHist, hyb, th, expect>>

CallDiskSetFaulty(key, value, ttl, fault) ==
    /\ disk' = DiskSetFaulty(disk, key, value, ttl, now, fault)
    /\ touch' = DiskTouch(touch, disk')
    /\ done' = DiskCall("disk_set_failed", key, None, FALSE)
    /\ UNCHANGED <<now, svcVars, written, auxVars, mem, memHist, hyb, th, expect>>

CallDiskDelete(key) ==
    LET r == DiskDelete(disk, key)
    IN  /\ disk' = r.d
        /\ touch' = DiskTouch(touch, disk')
        /\ done' = DiskCall("disk_delete", key, None, r.ret)
        /\ UNCHANGED <<now, svcVars, written, auxVars, mem, memHist, hyb, th, expect>>

CallDiskClear ==
    /\ disk' = DiskClear(disk)
    /\ touch' = DiskTouch(touch, disk')
    /\ done' = DiskCall("disk_clear", None, None, FALSE)
    /\ UNCHANGED <<now, svcVars, written, auxVars, mem, memHist, hyb, th, expect>>

TickDisk == Advance(MaxDiskTime)

NextDisk ==
    \/ \E key \in Keys : CallDiskGet(key)
    \/ \E key \in Keys, value \in Values, ttl \in 0..MaxTTL :
          CallDiskSet(key, value, ttl)
    \/ \E key \in Keys, value \in Values, ttl \in 0..MaxTTL,
           fault \in Faults : CallDiskSetFaulty(key, value, ttl, fault)
    \/ \E key \in Keys : CallDiskDelete(key)
    \/ CallDiskClear
    \/ TickDisk

SpecDisk == InitDisk /\ [][NextDisk]_vars

(***************************************************************************)
(* The HybridCache used by several threads.  The first step of a call is    *)
(* taken when the thread enters it, the last when it returns.  expect[k]    *)
(* is what the calls that have returned leave for key k: the value of a     *)
(* set, Absent after a delete, Anything while a set is in flight or when    *)
(* sets overlapped.                                                         *)
(***************************************************************************)
HybridKeys == {"k1"}
HybridTTLs == {PROMOTE_TTL, PROMOTE_TTL + PROMOTE_TTL}
MemoryTTLs == {<<>>, <<PROMOTE_TTL>>}

InitHybrid ==
    /\ now = 0
    /\ cb = CircuitBreakerInit(1, 0, 1)
    /\ cbHist = CbHistInit
    /\ geo = GeoServiceInit(TRUE, GEO_CACHE_TTL, GEO_LOOKUP_LIMIT)
    /\ mem = MemoryCacheInit(MaxMemSize)
    /\ touch = TouchInit
    /\ memHist = MemHistInit
    /\ disk = DiskCacheInit(MaxDiskBytes)
    /\ hyb = HybridCacheInit(0)
    /\ th = [t \in Threads |-> ThreadInit]
    /\ expect = [k \in Keys |-> Anything]
    /\ written = WrittenInit
    /\ done = NoneDone
    /\ scan = ScanInit
    /\ bulk = BulkInit
    /\ glob = GlobInit
    /\ locks = LocksInit

\* HybridCache.get, lines 293-295: value = self._memory.get(key), returned
\* when it is not None
HybridGetMemory(t, key) ==
    LET r == MemoryGet(mem, key, now)
        call == [ThreadInit EXCEPT !.op = "get", !.key = key,
                                   !.exp = expect[key]]
    IN  /\ th[t].pc = "idle"
        /\ mem' = r.m
        /\ IF r.ret # None
             THEN /\ done' = Returned(t, call, r.ret, FALSE)
                  /\ UNCHANGED th
             ELSE /\ th' = [th EXCEPT ![t] = [call EXCEPT !.pc = "get_disk"]]
                  /\ done' = NoneDone
        /\ UNCHANGED <<now, svcVars, written, auxVars, touch, memHist, disk, hyb,
                       expect>>

\* HybridCache.get, lines 298-299: value = self._disk.get(key)
HybridGetDisk(t) ==
    LET r == DiskGet(disk, th[t].key, now)
    IN  /\ th[t].pc = "get_disk"
        /\ disk' = r.d
        /\ th' = [th EXCEPT ![t].read_disk = TRUE,
                            ![t].value = r.ret,
                            ![t].pc = IF r.ret # None THEN "get_promote"
                                                      ELSE "get_cleanup"]
        /\ done' = NoneDone
        /\ UNCHANGED <<now, svcVars, written, auxVars, memVars, hyb, expect>>

\* A mutant of the promotion: the value read from the disk is returned
\* without being written to the memory tier.
PromotedNot(m, key, value, t) == m

\* HybridCache.get, line 301: self._memory.set(key, value, ttl=60)
Promoted(m, key, value, t) == MemorySet(m, key, value, PROMOTE_TTL, t).m

\* HybridCache.get, lines 301-302: promote to memory and return the value
HybridGetPromote(t) ==
    /\ th[t].pc = "get_promote"
    /\ mem' = Promoted(mem, th[t].key, th[t].value, now)
    /\ th' = [th EXCEPT ![t] = ThreadInit]
    /\ done' = Returned(t, th[t], th[t].value, FALSE)
    /\ UNCHANGED <<now, svcVars, written, auxVars, touch, memHist, disk, hyb,
                   expect>>

\* HybridCache.get, lines 304-305: self._maybe_cleanup(); return None
HybridGetCleanup(t) ==
    LET r == MaybeCleanup(hyb, mem, now)
    IN  /\ th[t].pc = "get_cleanup"
        /\ hyb' = r.h
        /\ mem' = r.m
        /\ th' = [th EXCEPT ![t] = ThreadInit]
        /\ done' = Returned(t, th[t], None, FALSE)
        /\ UNCHANGED <<now, svcVars, written, auxVars, touch, memHist, disk, expect>>

\* HybridCache.set, lines 318-320: self._memory.set(key, value, mem_ttl)
HybridSetMemory(t, key, value, ttl, memory_ttl) ==
    /\ th[t].pc = "idle"
    /\ mem' = MemorySet(mem, key, value, MemTTL(ttl, memory_ttl), now).m
    /\ th' = EnterSet(t, key, value, ttl, memory_ttl)
    /\ expect' = [expect EXCEPT ![key] = Anything]
    /\ written' =
         [written EXCEPT ![key] = WrittenBy(value, ttl, memory_ttl, now)]
    /\ done' = NoneDone
    /\ UNCHANGED <<now, svcVars, auxVars, touch, memHist, disk, hyb>>

\* HybridCache.set, line 321: self._disk.set(key, value, ttl)
HybridSetDisk(t) ==
    /\ th[t].pc = "set_disk"
    /\ disk' = DiskSet(disk, th[t].key, th[t].value, th[t].ttl, now)
    /\ th' = [th EXCEPT ![t].pc = "set_cleanup"]
    /\ done' = NoneDone
    /\ UNCHANGED <<now, svcVars, written, auxVars, memVars, hyb, expect>>

\* HybridCache.set, line 322: self._maybe_cleanup(), and return
HybridSetCleanup(t) ==
    LET r == MaybeCleanup(hyb, mem, now)
    IN  /\ th[t].pc = "set_cleanup"
        /\ hyb' = r.h
        /\ mem' = r.m
        /\ th' = [th EXCEPT ![t] = ThreadInit]
        /\ expect' = [expect EXCEPT ![th[t].key] = th[t].exp]
        /\ done' = Returned(t, th[t], None, FALSE)
        /\ UNCHANGED <<now, svcVars, written, auxVars, touch, memHist, disk>>

\* HybridCache.delete, line 326: mem_deleted = self._memory.delete(key)
HybridDeleteMemory(t, key) ==
    LET r == MemoryDelete(mem, key)
    IN  /\ th[t].pc = "idle"
        /\ mem' = r.m
        /\ th' = [th EXCEPT ![t] =
                    [ThreadInit EXCEPT !.pc = "delete_disk", !.op = "delete",
                                       !.key = key, !.deleted = r.ret,
                                       !.exp = IF SetInFlight(t, key)
                                                 THEN Anything ELSE Absent]]
        /\ done' = NoneDone
        /\ UNCHANGED <<now, svcVars, written, auxVars, touch, memHist, disk, hyb,
                       expect>>

\* HybridCache.delete, lines 327-328: disk_deleted = self._disk.delete(key);
\* return mem_deleted or disk_deleted
HybridDeleteDisk(t) ==
    LET r == DiskDelete(disk, th[t].key)
    IN  /\ th[t].pc = "delete_disk"
        /\ disk' = r.d
        /\ th' = [th EXCEPT ![t] = ThreadInit]
        /\ expect' = IF th[t].exp = Absent
                        THEN [expect EXCEPT ![th[t].key] = Absent]
                        ELSE expect
        /\ done' = Returned(t, th[t], None, th[t].deleted \/ r.ret)
        /\ UNCHANGED <<now, svcVars, written, auxVars, memVars, hyb>>

\* The clock, read at multiples of the promotion TTL of 60 s.
TickHybrid ==
    /\ now < MaxHybridTicks * PROMOTE_TTL
    /\ now' = now + PROMOTE_TTL
    /\ done' = NoneDone
    /\ UNCHANGED <<svcVars, written, auxVars, memVars, disk, hyb, th, expect>>

NextHybrid ==
    \/ \E t \in Threads, key \in HybridKeys : HybridGetMemory(t, key)
    \/ \E t \in Threads : HybridGetDisk(t)
    \/ \E t \in Threads : HybridGetPromote(t)
    \/ \E t \in Threads : HybridGetCleanup(t)
    \/ \E t \in Threads, key \in HybridKeys, value \in Values,
           ttl \in HybridTTLs, memory_ttl \in MemoryTTLs :
          HybridSetMemory(t, key, value, ttl, memory_ttl)
    \/ \E t \in Threads : HybridSetDisk(t)
    \/ \E t \in Threads : HybridSetCleanup(t)
    \/ \E t \in Threads, key \in HybridKeys : HybridDeleteMemory(t, key)
    \/ \E t \in Threads : HybridDeleteDisk(t)
    \/ TickHybrid

SpecHybrid == InitHybrid /\ [][NextHybrid]_vars

(***************************************************************************)
(* The HybridCache used by one thread, so that its calls run one after     *)
(* another, over a longer time, with memory_ttl = 0 and with writes to     *)
(* the disk tier that fail.                                                *)
(***************************************************************************)
SeqThreads == {"t1"}
SeqKeys == {"k1"}
SeqTTLs == {PROMOTE_TTL, CLEANUP_INTERVAL + PROMOTE_TTL}
SeqMemoryTTLs == {<<>>, <<0>>, <<PROMOTE_TTL>>}

\* HybridCache.set, line 321: self._disk.set(key, value, ttl), whose write
\* fails
HybridSetDiskFaulty(t, fault) ==
    /\ th[t].pc = "set_disk"
    /\ disk' = DiskSetFaulty(disk, th[t].key, th[t].value, th[t].ttl, now,
                             fault)
    /\ th' = [th EXCEPT ![t].pc = "set_cleanup"]
    /\ done' = NoneDone
    /\ UNCHANGED <<now, svcVars, written, auxVars, memVars, hyb, expect>>

\* The clock, read at multiples of the promotion TTL; a call is over
\* within one reading.
TickSeq ==
    /\ \A t \in SeqThreads : th[t].pc = "idle"
    /\ now < MaxSeqTicks * PROMOTE_TTL
    /\ now' = now + PROMOTE_TTL
    /\ done' = NoneDone
    /\ UNCHANGED <<svcVars, written, auxVars, memVars, disk, hyb, th, expect>>

NextSeq ==
    \/ \E t \in SeqThreads, key \in SeqKeys : HybridGetMemory(t, key)
    \/ \E t \in SeqThreads : HybridGetDisk(t)
    \/ \E t \in SeqThreads : HybridGetPromote(t)
    \/ \E t \in SeqThreads : HybridGetCleanup(t)
    \/ \E t \in SeqThreads, key \in SeqKeys, value \in Values,
           ttl \in SeqTTLs, memory_ttl \in SeqMemoryTTLs :
          HybridSetMemory(t, key, value, ttl, memory_ttl)
    \/ \E t \in SeqThreads : HybridSetDisk(t)
    \/ \E t \in SeqThreads, fault \in Faults : HybridSetDiskFaulty(t, fault)
    \/ \E t \in SeqThreads : HybridSetCleanup(t)
    \/ \E t \in SeqThreads, key \in SeqKeys : HybridDeleteMemory(t, key)
    \/ \E t \in SeqThreads : HybridDeleteDisk(t)
    \/ TickSeq

SpecSeq == InitHybrid /\ [][NextSeq]_vars

(***************************************************************************)
(* GeoService.get_location called by several threads.  Nothing is locked   *)
(* across the call: the cache tiers, the breaker and the providers are     *)
(* reached in separate steps.  The value of a thread inside the call is    *)
(* the status of its result.  One field is history: providers, the        *)
(* providers the call has invoked.  The _stats counters are left out, and  *)
(* cbHist, the history of the breaker driven directly, is not kept here.   *)
(* The service here has the ipapi library; the service without it is in    *)
(* the specifications of one caller and of bulk_lookup below.              *)
(***************************************************************************)

\* A mutant of the return: the record is never marked as cached.
GeoReturnedUncached(t, call, status, cached, message) ==
    [NoneDone EXCEPT !.thread = t, !.op = "get_location", !.key = call.key,
                     !.ip = call.ip, !.ret = status, !.cached = FALSE,
                     !.message = message, !.providers = call.providers]

\* get_location of thread t returning a record of the given status
GeoReturned(t, call, status, cached, message) ==
    [NoneDone EXCEPT !.thread = t, !.op = "get_location", !.key = call.key,
                     !.ip = call.ip, !.ret = status, !.cached = cached,
                     !.message = message, !.providers = call.providers]

InitGeo ==
    /\ now = 0
    /\ cb = CircuitBreakerInit(DEFAULT_FAILURE_THRESHOLD,
                               DEFAULT_RECOVERY_TIMEOUT,
                               DEFAULT_HALF_OPEN_MAX_CALLS)
    /\ cbHist = CbHistInit
    /\ geo = GeoServiceInit(TRUE, GEO_CACHE_TTL, GEO_LOOKUP_LIMIT)
    /\ mem = MemoryCacheInit(MaxMemSize)
    /\ touch = TouchInit
    /\ memHist = MemHistInit
    /\ disk = DiskCacheInit(MaxDiskBytes)
    /\ hyb = HybridCacheInit(0)
    /\ th = [t \in Threads |-> ThreadInit]
    /\ expect = [k \in Keys |-> Anything]
    /\ written = WrittenInit
    /\ done = NoneDone
    /\ scan = ScanInit
    /\ bulk = BulkInit
    /\ glob = GlobInit
    /\ locks = LocksInit

\* get_location, lines 258-273: validate_ip, and unless skip_cache the first
\* step of self.cache.get(cache_key), the read of the memory tier
GetLocation(t, ip, skip_cache) ==
    LET call == [ThreadInit EXCEPT !.op = "get_location", !.ip = ip,
                                   !.key = CacheKey(ip)]
        r == MemoryGet(mem, CacheKey(ip), now)
    IN  /\ th[t].pc = "idle"
        /\ IF ~ValidateIp(ip)
             THEN /\ done' = GeoReturned(t, [call EXCEPT !.key = None],
                                         STATUS_ERROR, FALSE, MSG_INVALID_IP)
                  /\ UNCHANGED <<th, mem>>
           ELSE IF skip_cache
             THEN /\ th' = [th EXCEPT ![t] =
                              [call EXCEPT !.pc = "geo_can_execute"]]
                  /\ done' = NoneDone
                  /\ UNCHANGED mem
           ELSE /\ mem' = r.m
                /\ IF r.ret # None
                     THEN /\ done' = GeoReturned(t, call, r.ret, TRUE, None)
                          /\ UNCHANGED th
                     ELSE /\ th' = [th EXCEPT ![t] =
                                      [call EXCEPT !.pc = "geo_get_disk"]]
                          /\ done' = NoneDone
        /\ UNCHANGED <<now, svcVars, written, auxVars, touch, memHist, disk, hyb,
                       expect>>

\* self.cache.get, lines 298-299: value = self._disk.get(key)
GeoGetDisk(t) ==
    LET r == DiskGet(disk, th[t].key, now)
    IN  /\ th[t].pc = "geo_get_disk"
        /\ disk' = r.d
        /\ th' = [th EXCEPT ![t].value = r.ret,
                            ![t].pc = IF r.ret # None THEN "geo_get_promote"
                                                      ELSE "geo_get_cleanup"]
        /\ done' = NoneDone
        /\ UNCHANGED <<now, svcVars, written, auxVars, memVars, hyb, expect>>

\* self.cache.get, lines 301-302, then get_location, lines 269-273: the
\* value is promoted and returned, and get_location returns it as cached
GeoGetPromote(t) ==
    /\ th[t].pc = "geo_get_promote"
    /\ mem' = Promoted(mem, th[t].key, th[t].value, now)
    /\ th' = [th EXCEPT ![t] = ThreadInit]
    /\ done' = GeoReturned(t, th[t], th[t].value, TRUE, None)
    /\ UNCHANGED <<now, svcVars, written, auxVars, touch, memHist, disk, hyb,
                   expect>>

\* self.cache.get, lines 304-305: self._maybe_cleanup(); return None
GeoGetCleanup(t) ==
    LET r == MaybeCleanup(hyb, mem, now)
    IN  /\ th[t].pc = "geo_get_cleanup"
        /\ hyb' = r.h
        /\ mem' = r.m
        /\ th' = [th EXCEPT ![t].pc = "geo_can_execute", ![t].value = None]
        /\ done' = NoneDone
        /\ UNCHANGED <<now, svcVars, written, auxVars, touch, memHist, disk, expect>>

\* get_location, lines 280-287: self.circuit_breaker.can_execute(), and the
\* error record when it refuses
GeoCanExecute(t) ==
    LET r == CanExecute(cb, now)
    IN  /\ th[t].pc = "geo_can_execute"
        /\ cb' = r.cb
        /\ UNCHANGED cbHist
        /\ IF r.ret
             THEN /\ th' = [th EXCEPT ![t].pc = "geo_ipapi"]
                  /\ done' = NoneDone
             ELSE /\ th' = [th EXCEPT ![t] = ThreadInit]
                  /\ done' = GeoReturned(t, th[t], STATUS_ERROR, FALSE,
                                         MSG_UNAVAILABLE)
        /\ UNCHANGED <<now, geo, written, auxVars, memVars, disk, hyb, expect>>

\* A mutant of the primary lookup: the fallback is queried whatever the
\* primary provider answered.
GeoIpapiAlwaysFallback(t, outcome) ==
    /\ th[t].pc = "geo_ipapi"
    /\ IF ~geo.ipapi
         THEN th' = [th EXCEPT ![t].pc = "geo_ip_api_com"]
         ELSE th' = [th EXCEPT
                       ![t].providers = Append(@, PROVIDER_IPAPI),
                       ![t].value = outcome,
                       ![t].ttl = geo.geo_cache_ttl,
                       ![t].pc = "geo_ip_api_com"]
    /\ done' = NoneDone
    /\ UNCHANGED <<now, svcVars, written, auxVars, memVars, disk, hyb, expect>>

\* get_location, line 290: result = self._get_from_ipapi(ip).  Without the
\* library the result is 'skip' and nothing is invoked; with it the lookup
\* succeeds or (an error answer, an exception) fails.
GeoIpapi(t, outcome) ==
    /\ th[t].pc = "geo_ipapi"
    /\ IF ~geo.ipapi
         THEN th' = [th EXCEPT ![t].pc = "geo_ip_api_com"]
         ELSE th' = [th EXCEPT
                       ![t].providers = Append(@, PROVIDER_IPAPI),
                       ![t].value = outcome,
                       ![t].ttl = geo.geo_cache_ttl,
                       ![t].pc = IF outcome = STATUS_SUCCESS
                                   THEN "geo_set_memory"
                                   ELSE "geo_ip_api_com"]
    /\ done' = NoneDone
    /\ UNCHANGED <<now, svcVars, written, auxVars, memVars, disk, hyb, expect>>

\* get_location, lines 293-303: result = self._get_from_ip_api_com(ip), and
\* the TTL the result is cached with: 'success', the status of the answer
\* ('fail'), or 'error' for a timeout or a request error
GeoIpApiCom(t, outcome) ==
    /\ th[t].pc = "geo_ip_api_com"
    /\ th' = [th EXCEPT
                ![t].providers = Append(@, PROVIDER_IP_API_COM),
                ![t].value = outcome,
                ![t].ttl = IF outcome = STATUS_SUCCESS
                             THEN geo.geo_cache_ttl
                             ELSE NEGATIVE_CACHE_TTL,
                ![t].pc = IF outcome = STATUS_ERROR
                            THEN "geo_record" ELSE "geo_set_memory"]
    /\ done' = NoneDone
    /\ UNCHANGED <<now, svcVars, written, auxVars, memVars, disk, hyb, expect>>

\* self.cache.set, lines 318-320: self._memory.set(key, value, mem_ttl)
GeoSetMemory(t) ==
    /\ th[t].pc = "geo_set_memory"
    /\ mem' = MemorySet(mem, th[t].key, th[t].value,
                        MemTTL(th[t].ttl, <<>>), now).m
    /\ th' = [th EXCEPT ![t].pc = "geo_set_disk"]
    /\ done' = NoneDone
    /\ UNCHANGED <<now, svcVars, written, auxVars, touch, memHist, disk, hyb,
                   expect>>

\* self.cache.set, line 321: self._disk.set(key, value, ttl)
GeoSetDisk(t) ==
    /\ th[t].pc = "geo_set_disk"
    /\ disk' = DiskSet(disk, th[t].key, th[t].value, th[t].ttl, now)
    /\ th' = [th EXCEPT ![t].pc = "geo_set_cleanup"]
    /\ done' = NoneDone
    /\ UNCHANGED <<now, svcVars, written, auxVars, memVars, hyb, expect>>

\* self.cache.set, line 322: self._maybe_cleanup(), and return
GeoSetCleanup(t) ==
    LET r == MaybeCleanup(hyb, mem, now)
    IN  /\ th[t].pc = "geo_set_cleanup"
        /\ hyb' = r.h
        /\ mem' = r.m
        /\ th' = [th EXCEPT ![t].pc = "geo_record"]
        /\ done' = NoneDone
        /\ UNCHANGED <<now, svcVars, written, auxVars, touch, memHist, disk, expect>>

\* A mutant of the end of get_location: only a result 'success' is recorded
\* as a success.
GeoRecordOnlySuccess(t) ==
    LET ok == th[t].value = STATUS_SUCCESS
    IN  /\ th[t].pc = "geo_record"
        /\ cb' = IF ok THEN RecordSuccess(cb) ELSE RecordFailure(cb, now)
        /\ UNCHANGED cbHist
        /\ th' = [th EXCEPT ![t] = ThreadInit]
        /\ done' = GeoReturned(t, th[t], th[t].value, FALSE, None)
        /\ UNCHANGED <<now, geo, written, auxVars, memVars, disk, hyb, expect>>

\* get_location, lines 299, 303, 307 and 309: record_success for a result
\* 'success' or 'fail', record_failure for any other, and return the result
GeoRecord(t) ==
    LET ok == th[t].value \in {STATUS_SUCCESS, STATUS_FAIL}
    IN  /\ th[t].pc = "geo_record"
        /\ cb' = IF ok THEN RecordSuccess(cb) ELSE RecordFailure(cb, now)
        /\ UNCHANGED cbHist
        /\ th' = [th EXCEPT ![t] = ThreadInit]
        /\ done' = GeoReturned(t, th[t], th[t].value, FALSE, None)
        /\ UNCHANGED <<now, geo, written, auxVars, memVars, disk, hyb, expect>>

\* The clock, read at multiples of the breaker's default recovery timeout.
TickGeo ==
    /\ now < MaxGeoTicks * DEFAULT_RECOVERY_TIMEOUT
    /\ now' = now + DEFAULT_RECOVERY_TIMEOUT
    /\ done' = NoneDone
    /\ UNCHANGED <<svcVars, written, auxVars, memVars, disk, hyb, th, expect>>

NextGeo ==
    \/ \E t \in Threads, ip \in IPs, skip_cache \in BOOLEAN :
          GetLocation(t, ip, skip_cache)
    \/ \E t \in Threads : GeoGetDisk(t)
    \/ \E t \in Threads : GeoGetPromote(t)
    \/ \E t \in Threads : GeoGetCleanup(t)
    \/ \E t \in Threads : GeoCanExecute(t)
    \/ \E t \in Threads, outcome \in {STATUS_SUCCESS, STATUS_FAIL} :
          GeoIpapi(t, outcome)
    \/ \E t \in Threads, outcome \in {STATUS_SUCCESS, STATUS_FAIL, STATUS_ERROR} :
          GeoIpApiCom(t, outcome)
    \/ \E t \in Threads : GeoSetMemory(t)
    \/ \E t \in Threads : GeoSetDisk(t)
    \/ \E t \in Threads : GeoSetCleanup(t)
    \/ \E t \in Threads : GeoRecord(t)
    \/ TickGeo

SpecGeo == InitGeo /\ [][NextGeo]_vars

(***************************************************************************)
(* GeoService.get_location called by one thread, so that its calls run     *)
(* one after another, under several configured values of GEO_CACHE_TTL     *)
(* and over a time in which cached records run out.                        *)
(***************************************************************************)
GeoOneThreads == {"t1"}
GeoCacheTTLs == {DEFAULT_RECOVERY_TIMEOUT, NEGATIVE_CACHE_TTL, GEO_CACHE_TTL}

InitGeoOne ==
    /\ now = 0
    /\ cb = CircuitBreakerInit(DEFAULT_FAILURE_THRESHOLD,
                               DEFAULT_RECOVERY_TIMEOUT,
                               DEFAULT_HALF_OPEN_MAX_CALLS)
    /\ cbHist = CbHistInit
    /\ geo \in {GeoServiceInit(ipapi, geo_cache_ttl, GEO_LOOKUP_LIMIT) :
                  ipapi \in BOOLEAN, geo_cache_ttl \in GeoCacheTTLs}
    /\ mem = MemoryCacheInit(MaxMemSize)
    /\ touch = TouchInit
    /\ memHist = MemHistInit
    /\ disk = DiskCacheInit(MaxDiskBytes)
    /\ hyb = HybridCacheInit(0)
    /\ th = [t \in Threads |-> ThreadInit]
    /\ expect = [k \in Keys |-> Anything]
    /\ written = WrittenInit
    /\ done = NoneDone
    /\ scan = ScanInit
    /\ bulk = BulkInit
    /\ glob = GlobInit
    /\ locks = LocksInit

\* The clock, read between calls at multiples of the breaker's default
\* recovery timeout; a call is over within one reading.
TickGeoOne ==
    /\ \A t \in GeoOneThreads : th[t].pc = "idle"
    /\ now < MaxGeoOneTicks * DEFAULT_RECOVERY_TIMEOUT
    /\ now' = now + DEFAULT_RECOVERY_TIMEOUT
    /\ done' = NoneDone
    /\ UNCHANGED <<svcVars, written, auxVars, memVars, disk, hyb, th, expect>>

NextGeoOne ==
    \/ \E t \in GeoOneThreads, ip \in IPs, skip_cache \in BOOLEAN :
          GetLocation(t, ip, skip_cache)
    \/ \E t \in GeoOneThreads : GeoGetDisk(t)
    \/ \E t \in GeoOneThreads : GeoGetPromote(t)
    \/ \E t \in GeoOneThreads : GeoGetCleanup(t)
    \/ \E t \in GeoOneThreads : GeoCanExecute(t)
    \/ \E t \in GeoOneThreads, outcome \in {STATUS_SUCCESS, STATUS_FAIL} :
          GeoIpapi(t, outcome)
    \/ \E t \in GeoOneThreads,
           outcome \in {STATUS_SUCCESS, STATUS_FAIL, STATUS_ERROR} :
          GeoIpApiCom(t, outcome)
    \/ \E t \in GeoOneThreads : GeoSetMemory(t)
    \/ \E t \in GeoOneThreads : GeoSetDisk(t)
    \/ \E t \in GeoOneThreads : GeoSetCleanup(t)
    \/ \E t \in GeoOneThreads : GeoRecord(t)
    \/ TickGeoOne

SpecGeoOne == InitGeoOne /\ [][NextGeoOne]_vars

(***************************************************************************)
(* GeoService.bulk_lookup.  The workers of the executor are threads that   *)
(* run get_location step by step, as above; the caller takes each record   *)
(* when its lookup is over and appends it to results.  A lookup that       *)
(* raises leaves through done with ret "raised".  The order of             *)
(* list(set(...)) is not defined, so the ids that pass the cut at          *)
(* GEO_LOOKUP_LIMIT are any that many of the distinct valid ids.           *)
(***************************************************************************)
BulkLimits == {1, GEO_LOOKUP_LIMIT}
BulkMemSizes == {0, 1}
RAISED == "raised"

\* The lists of ids of length at most n
RECURSIVE IdLists(_)
IdLists(n) ==
    IF n = 0 THEN {<<>>}
    ELSE LET shorter == IdLists(n - 1)
         IN  shorter \cup {Append(l, ip) : l \in shorter, ip \in BulkIPs}

\* set(ip.strip() for ip in ips if self.validate_ip(ip.strip()))
UniqueIps(ips) ==
    {Strip(ips[i]) : i \in {j \in 1..Len(ips) : ValidateIp(Strip(ips[j]))}}

\* The threads of ThreadPoolExecutor(max_workers=max_workers)
BulkWorkers(max_workers) == IF max_workers = 1 THEN {"t1"} ELSE Threads

\* The ids of the records in results
ResultIps(results) == {results[i].ip : i \in 1..Len(results)}

\* A lookup is over and the caller has not taken its record yet.
Uncollected == bulk.pc = "running" /\ done.op = "get_location"

\* The submitted ids no worker has started on
BulkQueue ==
    bulk.submitted \ ( ResultIps(bulk.results)
                         \cup {th[t].ip : t \in Threads}
                         \cup (IF Uncollected THEN {done.ip} ELSE {}) )

InitBulk ==
    /\ now = 0
    /\ cb = CircuitBreakerInit(DEFAULT_FAILURE_THRESHOLD,
                               DEFAULT_RECOVERY_TIMEOUT,
                               DEFAULT_HALF_OPEN_MAX_CALLS)
    /\ cbHist = CbHistInit
    /\ geo \in {GeoServiceInit(ipapi, GEO_CACHE_TTL, geo_lookup_limit) :
                  ipapi \in BOOLEAN, geo_lookup_limit \in BulkLimits}
    /\ mem \in {MemoryCacheInit(max_size) : max_size \in BulkMemSizes}
    /\ touch = TouchInit
    /\ memHist = MemHistInit
    /\ disk = DiskCacheInit(MaxDiskBytes)
    /\ hyb = HybridCacheInit(0)
    /\ th = [t \in Threads |-> ThreadInit]
    /\ expect = [k \in Keys |-> Anything]
    /\ written = WrittenInit
    /\ done = NoneDone
    /\ scan = ScanInit
    /\ bulk = BulkInit
    /\ glob = GlobInit
    /\ locks = LocksInit

\* bulk_lookup, lines 400-407: the distinct valid ids, and the submission
\* of unique_ips[:GEO_LOOKUP_LIMIT] to the executor
BulkLookup(ips, max_workers) ==
    LET unique == UniqueIps(ips)
        n == Min(Cardinality(unique), geo.geo_lookup_limit)
    IN  /\ bulk.pc \in {"idle", "returned"}
        /\ bulk.calls < MaxBulkCalls
        /\ \E submitted \in {s \in SUBSET unique : Cardinality(s) = n} :
              bulk' = [ips |-> ips, max_workers |-> max_workers,
                       submitted |-> submitted, results |-> <<>>,
                       pc |-> "running", calls |-> bulk.calls + 1]
        /\ done' = NoneDone
        /\ UNCHANGED <<now, svcVars, written, memVars, disk, hyb, th, expect,
                       scan, glob, locks>>

\* A worker that is free takes a submitted id: self.get_location(ip)
BulkStart(t, ip) ==
    /\ bulk.pc = "running"
    /\ ~Uncollected
    /\ t \in BulkWorkers(bulk.max_workers)
    /\ ip \in BulkQueue
    /\ GetLocation(t, ip, FALSE)

\* self.cache.set, line 320, and self.cache.get, line 301: the set of the
\* memory tier raises, and nothing on the way catches it; get_location is
\* over before the breaker is told
GeoMemorySetRaises(t) ==
    /\ th[t].pc \in {"geo_set_memory", "geo_get_promote"}
    /\ MemorySet(mem, th[t].key, th[t].value, 0, now).raised
    /\ mem' = MemorySet(mem, th[t].key, th[t].value, 0, now).m
    /\ th' = [th EXCEPT ![t] = ThreadInit]
    /\ done' = GeoReturned(t, th[t], RAISED, FALSE, None)
    /\ UNCHANGED <<now, svcVars, written, auxVars, touch, memHist, disk, hyb,
                   expect>>

\* The set of the memory tier that thread t is about to make returns.
MemorySetReturns(t) ==
    ~MemorySet(mem, th[t].key, th[t].value, 0, now).raised

\* bulk_lookup, lines 409-420: the next future of as_completed; its record
\* is appended, or an error record for its id when it raised
BulkCollect ==
    /\ Uncollected
    /\ bulk' = [bulk EXCEPT !.results = Append(@,
                  [ip |-> done.ip,
                   status |-> IF done.ret = RAISED THEN STATUS_ERROR
                                                   ELSE done.ret])]
    /\ done' = NoneDone
    /\ UNCHANGED <<now, svcVars, written, memVars, disk, hyb, th, expect,
                   scan, glob, locks>>

\* bulk_lookup, line 422: every future is done; return results
BulkReturn ==
    /\ bulk.pc = "running"
    /\ ~Uncollected
    /\ BulkQueue = {}
    /\ \A t \in Threads : th[t].pc = "idle"
    /\ bulk' = [bulk EXCEPT !.pc = "returned"]
    /\ done' = [NoneDone EXCEPT !.op = "bulk_lookup"]
    /\ UNCHANGED <<now, svcVars, written, memVars, disk, hyb, th, expect,
                   scan, glob, locks>>

NextBulk ==
    \/ \E ips \in IdLists(MaxBulkLen), max_workers \in 1..Cardinality(Threads) :
          BulkLookup(ips, max_workers)
    \/ BulkCollect
    \/ BulkReturn
    \/ \E t \in Threads, ip \in ValidIPs : BulkStart(t, ip)
    \/ \E t \in Threads : ~Uncollected /\ GeoGetDisk(t)
    \/ \E t \in Threads :
          ~Uncollected /\ MemorySetReturns(t) /\ GeoGetPromote(t)
    \/ \E t \in Threads : ~Uncollected /\ GeoGetCleanup(t)
    \/ \E t \in Threads : ~Uncollected /\ GeoCanExecute(t)
    \/ \E t \in Threads, outcome \in {STATUS_SUCCESS, STATUS_FAIL} :
          ~Uncollected /\ GeoIpapi(t, outcome)
    \/ \E t \in Threads,
           outcome \in {STATUS_SUCCESS, STATUS_FAIL, STATUS_ERROR} :
          ~Uncollected /\ GeoIpApiCom(t, outcome)
    \/ \E t \in Threads :
          ~Uncollected /\ MemorySetReturns(t) /\ GeoSetMemory(t)
    \/ \E t \in Threads : ~Uncollected /\ GeoMemorySetRaises(t)
    \/ \E t \in Threads : ~Uncollected /\ GeoSetDisk(t)
    \/ \E t \in Threads : ~Uncollected /\ GeoSetCleanup(t)
    \/ \E t \in Threads : ~Uncollected /\ GeoRecord(t)

SpecBulk == InitBulk /\ [][NextBulk]_vars

(***************************************************************************)
(* DiskCache written step by step, one step per write to the directory,    *)
(* by a process that may be killed between any two steps and started       *)
(* again.  What the process had in memory is lost; the files stay as they  *)
(* were.  An operation is over within one reading of the clock.            *)
(***************************************************************************)
CrashThreads == {"t1"}
CrashKeys == {"k1", "k2"}

\* DiskCache.set, line 197: self._cleanup_if_needed()
DiskSetCleanup(t, key, value, ttl) ==
    /\ th[t].pc = "idle"
    /\ disk' = CleanupIfNeeded(disk)
    /\ touch' = DiskTouch(touch, disk')
    /\ th' = [th EXCEPT ![t] = [ThreadInit EXCEPT
                !.pc = "disk_set_open", !.op = "disk_set", !.key = key,
                !.value = value, !.ttl = ttl]]
    /\ done' = NoneDone
    /\ UNCHANGED <<now, svcVars, written, auxVars, mem, memHist, hyb, expect>>

\* DiskCache.set, line 206: open(cache_file, 'wb') empties the file
DiskSetOpen(t) ==
    /\ th[t].pc = "disk_set_open"
    /\ disk' = [disk EXCEPT !.files[th[t].key] = NoFile]
    /\ th' = [th EXCEPT ![t].pc = "disk_set_dump"]
    /\ done' = NoneDone
    /\ UNCHANGED <<now, svcVars, written, auxVars, memVars, hyb, expect>>

\* DiskCache.set, lines 207-213: pickle.dump(entry, f), and the row of the
\* key in self._index
DiskSetDump(t) ==
    LET e == CacheEntry(th[t].key, th[t].value, now + th[t].ttl)
    IN  /\ th[t].pc = "disk_set_dump"
        /\ disk' = [disk EXCEPT
              !.files[th[t].key] = <<e>>,
              !.index = WithRow(@, [key |-> th[t].key,
                                    expires_at |-> e.expires_at,
                                    size |-> SizeOf(th[t].value)])]
        /\ touch' = DiskTouch([touch EXCEPT ![th[t].key] = 0], disk')
        /\ th' = [th EXCEPT ![t].pc = "disk_save_open"]
        /\ done' = NoneDone
        /\ UNCHANGED <<now, svcVars, written, auxVars, mem, memHist, hyb,
                       expect>>

\* DiskCache.delete, lines 221-226: the row is popped and the file unlinked
DiskDeleteRow(t, key) ==
    /\ th[t].pc = "idle"
    /\ IF key \in CacheKeys(disk.index)
         THEN /\ disk' = [disk EXCEPT !.index = Without(@, key),
                                      !.files[key] = NoFile]
              /\ th' = [th EXCEPT ![t] = [ThreadInit EXCEPT
                          !.pc = "disk_save_open", !.op = "disk_delete",
                          !.key = key, !.deleted = TRUE]]
              /\ done' = NoneDone
         ELSE /\ done' = DiskCall("disk_delete", key, None, FALSE)
              /\ UNCHANGED <<disk, th>>
    /\ touch' = DiskTouch(touch, disk')
    /\ UNCHANGED <<now, svcVars, written, auxVars, mem, memHist, hyb, expect>>

\* DiskCache.clear, lines 234-239: every file is unlinked and the index
\* emptied
DiskClearFiles(t) ==
    /\ th[t].pc = "idle"
    /\ disk' = [disk EXCEPT !.index = <<>>,
                            !.files = [k \in FileKeys |-> NoFile]]
    /\ touch' = DiskTouch(touch, disk')
    /\ th' = [th EXCEPT ![t] = [ThreadInit EXCEPT
                !.pc = "disk_save_open", !.op = "disk_clear"]]
    /\ done' = NoneDone
    /\ UNCHANGED <<now, svcVars, written, auxVars, mem, memHist, hyb, expect>>

\* _save_index, line 157, at the end of set, delete and clear
DiskSaveOpen(t) ==
    /\ th[t].pc = "disk_save_open"
    /\ disk' = SaveIndexOpen(disk)
    /\ th' = [th EXCEPT ![t].pc = "disk_save_dump"]
    /\ done' = NoneDone
    /\ UNCHANGED <<now, svcVars, written, auxVars, memVars, hyb, expect>>

\* _save_index, line 158: json.dump(self._index, f); the operation returns
DiskSaveDump(t) ==
    /\ th[t].pc = "disk_save_dump"
    /\ disk' = SaveIndex(disk)
    /\ th' = [th EXCEPT ![t] = ThreadInit]
    /\ done' = DiskCall(th[t].op, th[t].key, None, th[t].deleted)
    /\ UNCHANGED <<now, svcVars, written, auxVars, memVars, hyb, expect>>

\* The process is killed and started again: DiskCache.__init__
Crash ==
    /\ disk' = LoadIndex(disk)
    /\ touch' = DiskTouch(touch, disk')
    /\ th' = [t \in Threads |-> ThreadInit]
    /\ done' = [NoneDone EXCEPT !.op = "restart"]
    /\ UNCHANGED <<now, svcVars, written, auxVars, mem, memHist, hyb, expect>>

CrashIdle == \A t \in CrashThreads : th[t].pc = "idle"

NextCrash ==
    \/ \E key \in CrashKeys : CrashIdle /\ CallDiskGet(key)
    \/ \E t \in CrashThreads, key \in CrashKeys, value \in Values,
           ttl \in 0..MaxTTL : DiskSetCleanup(t, key, value, ttl)
    \/ \E t \in CrashThreads : DiskSetOpen(t)
    \/ \E t \in CrashThreads : DiskSetDump(t)
    \/ \E t \in CrashThreads, key \in CrashKeys : DiskDeleteRow(t, key)
    \/ \E t \in CrashThreads : DiskClearFiles(t)
    \/ \E t \in CrashThreads : DiskSaveOpen(t)
    \/ \E t \in CrashThreads : DiskSaveDump(t)
    \/ Crash
    \/ CrashIdle /\ TickDisk

SpecCrash == InitDisk /\ [][NextCrash]_vars

(***************************************************************************)
(* The two classifiers called on their own.  scan.call is the last call:   *)
(* its arguments and what it returned.                                     *)
(***************************************************************************)
Ports == {443, 4444, 8080}
Statuses == {"ESTABLISHED", "TIME_WAIT", "CLOSE_WAIT", "SYN_SENT"}
GeoStatuses == {None, "success", "fail", "skipped"}
RemoteIPs == {None, "8.8.8.8", "10.0.0.1"}

InitClassify ==
    /\ now = 0
    /\ cb = CircuitBreakerInit(1, 0, 1)
    /\ cbHist = CbHistInit
    /\ geo = GeoServiceInit(TRUE, GEO_CACHE_TTL, GEO_LOOKUP_LIMIT)
    /\ mem = MemoryCacheInit(1)
    /\ touch = TouchInit
    /\ memHist = MemHistInit
    /\ disk = DiskCacheInit(MaxDiskBytes)
    /\ hyb = HybridCacheInit(0)
    /\ th = [t \in Threads |-> ThreadInit]
    /\ expect = [k \in Keys |-> Anything]
    /\ written = WrittenInit
    /\ done = NoneDone
    /\ scan = ScanInit
    /\ bulk = BulkInit
    /\ glob = GlobInit
    /\ locks = LocksInit

CallClassifyConnection(remote_port, status, geo_status, remote_ip) ==
    LET r == ClassifyConnection(remote_port, status, geo_status, remote_ip)
    IN  /\ scan' = [scan EXCEPT !.call =
                      [fn |-> "classify_connection",
                       remote_port |-> remote_port, status |-> status,
                       geo |-> geo_status, remote_ip |-> remote_ip,
                       level |-> r.level, risks |-> r.risks]]
        /\ UNCHANGED <<now, svcVars, memVars, hybVars, bulk, glob, locks>>

\* analyze_connection, lines 93-101: is_private = self._is_private_ip(
\* remote_ip), then self._classify_risk(...)
CallClassifyRisk(remote_port, status, geo_status, remote_ip) ==
    LET r == ClassifyRisk(remote_port, status, geo_status, remote_ip,
                          IsPrivateIp(remote_ip))
    IN  /\ scan' = [scan EXCEPT !.call =
                      [fn |-> "_classify_risk",
                       remote_port |-> remote_port, status |-> status,
                       geo |-> geo_status, remote_ip |-> remote_ip,
                       level |-> r.level, risks |-> r.risks]]
        /\ UNCHANGED <<now, svcVars, memVars, hybVars, bulk, glob, locks>>

NextClassify ==
    \/ \E remote_port \in Ports, status \in Statuses,
           geo_status \in GeoStatuses, remote_ip \in RemoteIPs :
          CallClassifyConnection(remote_port, status, geo_status, remote_ip)
    \/ \E remote_port \in Ports, status \in Statuses,
           geo_status \in GeoStatuses, remote_ip \in RemoteIPs \ {None} :
          CallClassifyRisk(remote_port, status, geo_status, remote_ip)

SpecClassify == InitClassify /\ [][NextClassify]_vars

(***************************************************************************)
(* get_local_network_info: the connections are classified one by one and   *)
(* collected, then summarised by aggregate_security.  aggregate_security   *)
(* is also called (by the tests) on dicts that lack keys: a key that is    *)
(* not there is None.                                                      *)
(***************************************************************************)

\* The connections the scan meets: (remote_port, status, geo status,
\* remote_ip)
ScanInputs ==
    { <<443, "ESTABLISHED", "success", "8.8.8.8">>,
      <<8080, "SYN_SENT", "success", "8.8.8.8">>,
      <<4444, "ESTABLISHED", "fail", "8.8.8.8">> }

\* A connection dict with none of the keys aggregate_security reads; the
\* port that is not there is written 0, which is in neither set of ports
EmptyDict ==
    [remote_port |-> 0, status |-> None, remote_ip |-> None,
     geo |-> None, risk_level |-> None, risks |-> <<>>]

\* get_local_network_info, lines 432-456: one turn of the loop over the
\* connections
ScanConnection(c) ==
    LET r == ClassifyConnection(c[1], c[2], c[3], c[4])
    IN  /\ scan.security = <<>>
        /\ Len(scan.connections) < MaxConns
        /\ scan' = [scan EXCEPT !.connections = Append(@,
                      [remote_port |-> c[1], status |-> c[2],
                       remote_ip |-> c[4], geo |-> c[3],
                       risk_level |-> r.level, risks |-> r.risks])]
        /\ UNCHANGED <<now, svcVars, memVars, hybVars, bulk, glob, locks>>

\* A dict without keys among the connections handed to aggregate_security
AddEmptyDict ==
    /\ scan.security = <<>>
    /\ Len(scan.connections) < MaxConns
    /\ scan' = [scan EXCEPT !.connections = Append(@, EmptyDict)]
    /\ UNCHANGED <<now, svcVars, memVars, hybVars, bulk, glob, locks>>

\* get_local_network_info, line 468: info["security"] =
\* aggregate_security(info["connections"])
CallAggregateSecurity ==
    /\ scan.security = <<>>
    /\ scan' = [scan EXCEPT !.security = <<AggregateSecurity(scan.connections)>>]
    /\ UNCHANGED <<now, svcVars, memVars, hybVars, bulk, glob, locks>>

NextScan ==
    \/ \E c \in ScanInputs : ScanConnection(c)
    \/ AddEmptyDict
    \/ CallAggregateSecurity

SpecScan == InitClassify /\ [][NextScan]_vars

(***************************************************************************)
(* Claims about GeoService.get_location, checked under SpecGeo.  In a step *)
(* in which a call returns, done' is that call.                            *)
(***************************************************************************)

\* C1 (as claimed): when a get_location call that missed the cache reaches
\* the breaker while it is Open, the call returns an error-status record
\* without having invoked any provider if less than recovery_timeout has
\* elapsed since the last failure, and is admitted and goes on to its
\* provider if recovery_timeout has elapsed.
C1_OpenBreakerGatesProviders ==
    [][ \A t \in Threads :
          ( /\ th[t].pc = "geo_can_execute"
            /\ th'[t].pc # "geo_can_execute"
            /\ cb.state = STATE_OPEN )
            => IF now - cb.last_failure_time < cb.recovery_timeout
                 THEN /\ done'.thread = t
                      /\ done'.ret = STATUS_ERROR
                      /\ done'.providers = <<>>
                 ELSE /\ th'[t].pc = "geo_ipapi"
                      /\ done' = NoneDone ]_vars

(***************************************************************************)
(* Claims about the breaker, checked under SpecCB.                         *)
(***************************************************************************)

\* C2: from Closed the breaker opens exactly when failure_threshold failures
\* have been recorded in a row and not before: a step Closed -> Open happens
\* with a streak of exactly failure_threshold, while Closed the failure count
\* is the streak and stays below the threshold, and a success recorded
\* while Closed leaves the failure count at 0.
C2_OpensAtThreshold ==
    [][ /\ (cb.state = STATE_CLOSED /\ cb'.state = STATE_OPEN)
            => cbHist'.streak = cb.failure_threshold
        /\ cb'.state = STATE_CLOSED
            => /\ cb'.failure_count = cbHist'.streak
               /\ cbHist'.streak < cb.failure_threshold
        /\ (cb.state = STATE_CLOSED /\ cbHist'.streak = 0)
            => cb'.failure_count = 0 ]_vars

\* C2 witness: with a threshold of 2 the breaker is Open after two failures
\* in a row that followed a recorded success.
C2_Witness ==
    /\ cb.state = STATE_OPEN
    /\ cb.failure_threshold = 2
    /\ cbHist.streak = 2
    /\ cbHist.successes >= 1
    /\ cbHist.edges = {<<STATE_CLOSED, STATE_OPEN>>}

\* C3 (as claimed): in one HalfOpen period can_execute admits at most
\* half_open_max_calls calls, the call that opened the period included.
C3_AtMostMaxProbesAdmitted ==
    cb.state = STATE_HALF_OPEN => cbHist.admitted <= cb.half_open_max_calls

\* C4 (as claimed): the breaker goes HalfOpen -> Closed only when
\* half_open_max_calls successes have been recorded since it last entered
\* HalfOpen, and then both counters are 0.
C4_ClosesAfterFreshStreak ==
    [][ (cb.state = STATE_HALF_OPEN /\ cb'.state = STATE_CLOSED)
          => /\ cbHist'.successes >= cb.half_open_max_calls
             /\ cb'.failure_count = 0
             /\ cb'.success_count = 0 ]_vars

LegalEdges ==
    { <<STATE_CLOSED, STATE_OPEN>>, <<STATE_OPEN, STATE_HALF_OPEN>>,
      <<STATE_HALF_OPEN, STATE_CLOSED>>, <<STATE_HALF_OPEN, STATE_OPEN>> }

\* C5: every change of the breaker's state is one of Closed -> Open,
\* Open -> HalfOpen, HalfOpen -> Closed, HalfOpen -> Open.
C5_OnlyLegalEdges ==
    [][ cb'.state # cb.state => <<cb.state, cb'.state>> \in LegalEdges ]_vars

\* C5 witness: a run in which the breaker has taken each of the four edges.
C5_Witness == cbHist.edges = LegalEdges

(***************************************************************************)
(* Claims about the MemoryCache, checked under SpecMem.  In a step that is  *)
(* a call, memHist' is the call and mem, touch and now are what it found.   *)
(***************************************************************************)

\* C6 (as claimed): get of a stored key returns the stored value if and only
\* if now < expires_at, and reports the key as not found when
\* now >= expires_at, now = expires_at included.
C6_GetIffBeforeExpiry ==
    [][ (memHist'.op = "get" /\ memHist'.key \in CacheKeys(mem.cache))
          => LET e == EntryOf(mem.cache, memHist'.key)
             IN  IF now < e.expires_at
                   THEN memHist'.ret = e.value
                   ELSE memHist'.ret = None ]_vars

\* The key of the dictionary c whose last touch is the oldest.
LeastRecentlyTouched(c) ==
    CHOOSE k \in CacheKeys(c) : \A j \in CacheKeys(c) : touch[k] <= touch[j]

\* C7: when the cache holds max_size (at least 1) entries and set is called
\* with a key that is not present, the call removes exactly one entry, the
\* one whose last touch (a set, or a get that returned its value) is the
\* oldest, keeps every other entry as it was and stores the new one.
C7_EvictsLeastRecentlyTouched ==
    [][ ( /\ memHist'.op = "set"
          /\ memHist'.key \notin CacheKeys(mem.cache)
          /\ mem.max_size >= 1
          /\ Len(mem.cache) = mem.max_size )
          => /\ memHist'.removed = {LeastRecentlyTouched(mem.cache)}
             /\ CacheKeys(mem'.cache) =
                  (CacheKeys(mem.cache) \ {LeastRecentlyTouched(mem.cache)})
                     \cup {memHist'.key}
             /\ \A k \in CacheKeys(mem.cache) \cap CacheKeys(mem'.cache) :
                  EntryOf(mem'.cache, k) = EntryOf(mem.cache, k)
             /\ EntryOf(mem'.cache, memHist'.key) =
                  CacheEntry(memHist'.key, memHist'.value, now + memHist'.ttl)
        ]_vars

\* C7 witness: a full cache of two entries in which k1 was touched after k2;
\* set of the new key k3 has just evicted k2 and kept k1.
C7_Witness ==
    /\ memHist.op = "set"
    /\ memHist.key = "k3"
    /\ memHist.removed = {"k2"}
    /\ mem.max_size = 2
    /\ Len(mem.cache) = 2
    /\ mem.cache[1].key = "k1"
    /\ mem.cache[2].key = "k3"

\* C8: with max_size >= 1 the cache never holds more than max_size entries,
\* whatever get, set, delete, clear and cleanup_expired calls were made.
C8_SizeWithinMaxSize ==
    mem.max_size >= 1 => Len(mem.cache) <= mem.max_size

\* C8 witness: a set on a full cache of two entries evicted one and left the
\* cache full.
C8_Witness ==
    /\ mem.max_size = 2
    /\ Len(mem.cache) = 2
    /\ memHist.op = "set"
    /\ Cardinality(memHist.removed) = 1

(***************************************************************************)
(* Claims about the HybridCache, checked under SpecHybrid.  In a step in    *)
(* which a call returns, done' is that call.                                *)
(***************************************************************************)

\* C9 (as claimed): get, set and delete on one key are linearizable: a get
\* entered after delete(k) returned, with no set(k) since, returns no value,
\* and a get entered after set(k, v2) returned returns v2 or nothing, never
\* an older value.
C9_Linearizable ==
    done.op = "get"
      => /\ done.exp = Absent => done.ret = None
         /\ done.exp \in Values => done.ret \in {done.exp, None}

(***************************************************************************)
(* Claims about the DiskCache, checked under SpecDisk.                     *)
(***************************************************************************)

\* C14 (as claimed): after every DiskCache.set returns, the sizes recorded
\* in the index add up to at most max_size_bytes, whatever was set before.
C14_IndexWithinMaxBytes ==
    done.op \in {"disk_set", "disk_set_failed"}
      => TotalSize(disk.index) <= disk.max_size_bytes

(***************************************************************************)
(* Claims about the HybridCache used by one thread, checked under SpecSeq. *)
(***************************************************************************)

\* C11 (as claimed): for a key last written by set(k, v, ttl) without a
\* memory_ttl, no get returns v at a time now >= (time of that set + ttl),
\* whether v comes from the memory tier or was promoted from the disk tier.
C11_PlainSetNeverOutlivesTTL ==
    ( /\ done.op = "get"
      /\ done.ret # None
      /\ written[done.key] # <<>>
      /\ written[done.key][1].plain
      /\ done.ret = written[done.key][1].value )
      => now < written[done.key][1].deadline

\* C12 (as claimed): set(k, v, ttl, memory_ttl) stores k in the memory tier
\* with expiry now + memory_ttl for every supplied memory_ttl >= 0 and with
\* expiry now + min(ttl, 300) when none is supplied, and a write to the disk
\* tier that does not fail stores k there with expiry now + ttl.
C12_SetStoresBothTiers ==
    [][ \A t \in SeqThreads :
          /\ (th[t].pc = "idle" /\ th'[t].pc = "set_disk")
                => /\ th'[t].key \in CacheKeys(mem'.cache)
                   /\ EntryOf(mem'.cache, th'[t].key) =
                        CacheEntry(th'[t].key, th'[t].value,
                                   now + IF th'[t].memory_ttl # <<>>
                                           THEN th'[t].memory_ttl[1]
                                           ELSE Min(th'[t].ttl,
                                                    MEMORY_TTL_CEILING))
          /\ HybridSetDisk(t)
                => /\ th[t].key \in CacheKeys(disk'.index)
                   /\ EntryOf(disk'.index, th[t].key).expires_at =
                        now + th[t].ttl
                   /\ disk'.files[th[t].key] =
                        <<CacheEntry(th[t].key, th[t].value, now + th[t].ttl)>>
      ]_vars

\* C13: delete(k) removes k from the memory tier and from the disk tier
\* (its row and its file) and returns true if and only if k was in the
\* memory tier's dictionary or in the disk tier's index; with the calls run
\* one after another, a get entered after delete returned, with no set
\* since, returns None.
C13_DeleteRemovesBoth ==
    [][ \A t \in SeqThreads :
          /\ (th[t].pc = "idle" /\ th'[t].pc = "delete_disk")
                => /\ th'[t].key \notin CacheKeys(mem'.cache)
                   /\ th'[t].deleted = (th'[t].key \in CacheKeys(mem.cache))
          /\ (th[t].pc = "delete_disk" /\ th'[t].pc = "idle")
                => /\ th[t].key \notin CacheKeys(mem'.cache)
                   /\ th[t].key \notin CacheKeys(disk'.index)
                   /\ disk'.files[th[t].key] = NoFile
                   /\ done'.op = "delete"
                   /\ done'.deleted =
                        (th[t].deleted \/ th[t].key \in CacheKeys(disk.index))
          /\ (done'.op = "get" /\ done'.thread = t /\ done'.exp = Absent)
                => done'.ret = None ]_vars

\* C13 witness: a get has just returned None for a key whose last set, with
\* a TTL that has not run out, was followed by a delete.
C13_Witness ==
    /\ done.op = "get"
    /\ done.exp = Absent
    /\ done.ret = None
    /\ written[done.key] # <<>>
    /\ now < written[done.key][1].deadline

\* C15 (as claimed): when the write of the file or of the index fails inside
\* HybridCache.set(k, v, ttl), set goes on to return, the memory tier holds
\* v under k, and the disk tier answers a get of k with None; no get entered
\* after set(k, v) returned returns a value of an earlier set of k.
\* (A failed write that leaves the disk tier as the successful write would,
\* over an entry with the same value and expiry, is not told apart from it.)
C15_FailedWriteIsDiskMiss ==
    [][ \A t \in SeqThreads :
          /\ ( /\ \E fault \in Faults : HybridSetDiskFaulty(t, fault)
              /\ ~HybridSetDisk(t) )
                => /\ th'[t].pc = "set_cleanup"
                   /\ th[t].key \in CacheKeys(mem'.cache)
                   /\ EntryOf(mem'.cache, th[t].key).value = th[t].value
                   /\ DiskGet(disk', th[t].key, now).ret = None
          /\ (done'.op = "get" /\ done'.thread = t /\ done'.exp \in Values)
                => done'.ret \in {done'.exp, None} ]_vars

\* Whether key is in the memory tier m and not expired at clock reading t
LiveInMemory(m, key, t) ==
    key \in CacheKeys(m.cache) /\ ~IsExpired(EntryOf(m.cache, key), t)

\* Whether key is in the disk tier d, not expired at t, with its file
LiveOnDisk(d, key, t) ==
    /\ key \in CacheKeys(d.index)
    /\ t <= EntryOf(d.index, key).expires_at
    /\ d.files[key] # NoFile
    /\ t <= d.files[key][1].expires_at

\* C10: a get of a key that is live only in the disk tier reads its value
\* from the disk, writes it to the memory tier and returns it, so that in
\* the state it returns in a get of the key finds the value in the memory
\* tier; a get that finds the key live in the memory tier returns the value
\* at once, without reading or changing the disk tier; a get that finds the
\* key in neither tier returns None.
C10_PromotionOnDiskHit ==
    [][ \A t \in Threads :
          /\ (th[t].pc = "get_disk" /\ th'[t].pc # "get_disk")
                => IF LiveOnDisk(disk, th[t].key, now)
                     THEN /\ th'[t].pc = "get_promote"
                          /\ th'[t].value = disk.files[th[t].key][1].value
                     ELSE th'[t].pc = "get_cleanup"
          /\ (th[t].pc = "get_promote" /\ th'[t].pc = "idle")
                => /\ done' = Returned(t, th[t], th[t].value, FALSE)
                   /\ LiveInMemory(mem', th[t].key, now)
                   /\ EntryOf(mem'.cache, th[t].key).value = th[t].value
                   /\ MemoryGet(mem', th[t].key, now).ret = th[t].value
          /\ (th[t].pc = "get_cleanup" /\ th'[t].pc = "idle")
                => (done'.op = "get" /\ done'.ret = None)
          /\ (th[t].pc = "idle" /\ th'[t].pc = "get_disk")
                => ~LiveInMemory(mem, th'[t].key, now)
          /\ ( /\ th[t].pc = "idle" /\ th'[t].pc = "idle"
               /\ done'.thread = t /\ done'.op = "get" )
                => /\ LiveInMemory(mem, done'.key, now)
                   /\ done'.ret = EntryOf(mem.cache, done'.key).value
                   /\ ~done'.read_disk
                   /\ disk' = disk ]_vars

\* C10 witness: a get has just returned v1, read from the disk tier at a
\* time when the memory tier's entry had expired, and the memory tier now
\* holds the key.
C10_Witness ==
    /\ done.op = "get"
    /\ done.read_disk
    /\ done.ret = "v1"
    /\ now = PROMOTE_TTL + PROMOTE_TTL
    /\ LiveInMemory(mem, done.key, now)
    /\ LiveOnDisk(disk, done.key, now)

(***************************************************************************)
(* Claims about what get_location returns and caches.  C16 is checked      *)
(* under SpecGeo, the others under SpecGeoOne.                             *)
(***************************************************************************)

\* The ids that validate_ip refuses
InvalidIPs == IPs \ ValidIPs

\* C16: for every invalid id get_location returns an error record at once:
\* the call returns in the step it is made in, with status 'error' and no
\* provider invoked, leaving the breaker, both cache tiers, the cleanup
\* clock and every thread as they were; no call with an invalid id ever gets
\* past the validation, and no cache tier ever holds a key of an invalid id.
C16_InvalidIdTouchesNothing ==
    [][ /\ \A t \in Threads : th'[t].ip \notin InvalidIPs
        /\ \A ip \in InvalidIPs :
              /\ CacheKey(ip) \notin CacheKeys(mem'.cache)
              /\ CacheKey(ip) \notin CacheKeys(disk'.index)
        /\ (done'.op = "get_location" /\ done'.ip \in InvalidIPs)
              => /\ done'.ret = STATUS_ERROR
                 /\ done'.message = MSG_INVALID_IP
                 /\ ~done'.cached
                 /\ done'.providers = <<>>
                 /\ th[done'.thread].pc = "idle"
                 /\ UNCHANGED <<cb, mem, disk, hyb, th>> ]_vars

\* C16 witness: a call with an invalid id has just returned its error
\* record while the cache holds a record, the breaker has counted a failure
\* and another thread is inside a call.
C16_Witness ==
    /\ done.op = "get_location"
    /\ done.ip \in InvalidIPs
    /\ done.ret = STATUS_ERROR
    /\ mem.cache # <<>>
    /\ cb.failure_count > 0
    /\ \E t \in Threads : th[t].pc = "geo_ipapi"

\* C17: a get_location call without skip_cache for a valid id whose record
\* is live in the memory tier returns that record at once, as cached, with
\* no provider invoked and the breaker unchanged; when the record is live
\* in the disk tier the read of the disk finds it, and the call returns it
\* as cached with no provider invoked and the breaker unchanged; a call that
\* invoked a provider returns its record as not cached.
C17_CacheHitSkipsProviders ==
    [][ \A t \in GeoOneThreads :
          /\ \A ip \in ValidIPs :
                ( /\ GetLocation(t, ip, FALSE)
                  /\ LiveInMemory(mem, CacheKey(ip), now) )
                  => /\ done'.thread = t
                     /\ done'.op = "get_location"
                     /\ done'.ip = ip
                     /\ done'.ret = EntryOf(mem.cache, CacheKey(ip)).value
                     /\ done'.cached
                     /\ done'.providers = <<>>
                     /\ UNCHANGED cb
          /\ (GeoGetDisk(t) /\ LiveOnDisk(disk, th[t].key, now))
                => /\ th'[t].pc = "geo_get_promote"
                   /\ th'[t].value = disk.files[th[t].key][1].value
                   /\ UNCHANGED cb
          /\ GeoGetPromote(t)
                => /\ done'.thread = t
                   /\ done'.op = "get_location"
                   /\ done'.ret = th[t].value
                   /\ done'.cached
                   /\ done'.providers = <<>>
                   /\ UNCHANGED cb
          /\ (done'.op = "get_location" /\ done'.providers # <<>>)
                => ~done'.cached ]_vars

\* C17 witness: under the default GEO_CACHE_TTL a call has just returned,
\* as cached and with no provider invoked, a record that was promoted from
\* the disk tier at this clock reading, after the memory entry written with
\* it had run out, while the breaker has counted a failure.
C17_Witness ==
    /\ done.op = "get_location"
    /\ done.cached
    /\ done.ret = STATUS_SUCCESS
    /\ done.providers = <<>>
    /\ geo.geo_cache_ttl = GEO_CACHE_TTL
    /\ done.key \in CacheKeys(mem.cache)
    /\ EntryOf(mem.cache, done.key).expires_at = now + PROMOTE_TTL
    /\ done.key \in CacheKeys(disk.index)
    /\ now > EntryOf(disk.index, done.key).expires_at - GEO_CACHE_TTL
                + MEMORY_TTL_CEILING
    /\ cb.failure_count > 0

\* C18 (as claimed): under every configured GEO_CACHE_TTL, the TTL with
\* which get_location is about to cache a result that is not a success is
\* less than the TTL with which it caches a success, the configured
\* GEO_CACHE_TTL.
C18_NegativeTTLBelowPositive ==
    \A t \in GeoOneThreads :
        (th[t].pc = "geo_set_memory" /\ th[t].value # STATUS_SUCCESS)
          => th[t].ttl < geo.geo_cache_ttl

\* C19 (as claimed): when a get_location call that invoked its providers
\* has returned a record that is not a success, the same call made again at
\* once, without skip_cache, returns that record as cached with no provider
\* invoked.
C19_ProviderErrorIsCached ==
    [][ \A t \in GeoOneThreads :
          ( /\ done.op = "get_location"
            /\ done.providers # <<>>
            /\ done.ret # STATUS_SUCCESS
            /\ GetLocation(t, done.ip, FALSE) )
            => /\ done'.thread = t
               /\ done'.op = "get_location"
               /\ done'.cached
               /\ done'.ret = done.ret
               /\ done'.providers = <<>> ]_vars

\* C20 (as claimed): when get_location has returned the record of the
\* breaker's refusal, a cache tier holds that error record, live, under the
\* key of the id.
C20_RejectionIsCached ==
    (done.op = "get_location" /\ done.message = MSG_UNAVAILABLE)
      => \/ /\ LiveInMemory(mem, done.key, now)
            /\ EntryOf(mem.cache, done.key).value = done.ret
         \/ /\ LiveOnDisk(disk, done.key, now)
            /\ disk.files[done.key][1].value = done.ret

(***************************************************************************)
(* Further claims about the MemoryCache (SpecMem) and the breaker (SpecCB). *)
(***************************************************************************)

\* C22 (as claimed): no call of get, set, delete, clear or cleanup_expired
\* raises, whatever the key, the value, the ttl and the configured max_size
\* (0 included).
C22_MemoryCacheNeverRaises == ~memHist.raised

\* C27: a failure recorded while the breaker is HalfOpen leaves it Open with
\* last_failure_time at the clock reading of that failure; and while the
\* breaker is Open and less than recovery_timeout has passed since
\* last_failure_time, can_execute refuses the call and leaves it Open.
C27_HalfOpenFailureReopens ==
    [][ /\ (CallRecordFailure /\ cb.state = STATE_HALF_OPEN)
              => /\ cb'.state = STATE_OPEN
                 /\ cb'.last_failure_time = now
        /\ ( /\ cb'.state = STATE_OPEN
             /\ now' - cb'.last_failure_time < cb'.recovery_timeout )
              => /\ ~CanExecute(cb', now').ret
                 /\ CanExecute(cb', now').cb.state = STATE_OPEN ]_vars

\* C27 witness: with a recovery timeout of 1 the breaker, reopened from
\* HalfOpen by a failure at a clock reading after the failure that first
\* opened it, is Open at the clock reading of that failure.
C27_Witness ==
    /\ cb.state = STATE_OPEN
    /\ cb.recovery_timeout = 1
    /\ <<STATE_HALF_OPEN, STATE_OPEN>> \in cbHist.edges
    /\ cb.last_failure_time = now
    /\ now >= 2

(***************************************************************************)
(* A claim about the callers of get_location sharing the breaker, checked  *)
(* under SpecGeo.                                                          *)
(***************************************************************************)

\* Where a call stands between the breaker admitting it and the call
\* recording its outcome
BetweenAdmissionAndRecord ==
    {"geo_ipapi", "geo_ip_api_com", "geo_set_memory", "geo_set_disk",
     "geo_set_cleanup", "geo_record"}

\* C26 (as claimed): while a caller stands between its admission by
\* can_execute and the recording of its outcome, no other caller's
\* can_execute and no other caller's record_success or record_failure
\* takes place.
C26_AdmissionToRecordAtomic ==
    [][ \A t \in Threads :
          (GeoCanExecute(t) \/ GeoRecord(t))
            => \A u \in Threads \ {t} :
                 th[u].pc \notin BetweenAdmissionAndRecord ]_vars

(***************************************************************************)
(* Further claims about the DiskCache, checked under SpecDisk.  In a step  *)
(* that is a call, done' is the call and disk, touch and now are what it   *)
(* found.                                                                  *)
(***************************************************************************)

\* The keys whose rows the step removes from the index
Evicted == CacheKeys(disk.index) \ CacheKeys(disk'.index)

\* Whether the step is a call of DiskCache.set
IsDiskSet == done'.op \in {"disk_set", "disk_set_failed"}

\* C23 (as claimed): a set(k, v, ttl) that follows at once a set with the
\* same arguments leaves the tier as the first call left it: the same keys
\* are stored, none was evicted, and get(k) returns v.
C23_SetTwiceSameAsOnce ==
    [][ \A key \in Keys, value \in Values, ttl \in 0..MaxTTL :
          ( /\ done.op = "disk_set"
            /\ done.key = key
            /\ disk.files[key] = <<CacheEntry(key, value, now + ttl)>>
            /\ CallDiskSet(key, value, ttl) )
            => /\ CacheKeys(disk'.index) = CacheKeys(disk.index)
               /\ DiskGet(disk', key, now).ret = value
               /\ DiskGet(disk, key, now).ret = value ]_vars

\* C28 (as claimed): when a set evicts, it never removes an entry that was
\* read by get more recently than an entry it keeps.
C28_EvictsInReadOrder ==
    [][ IsDiskSet
          => \A r \in Evicted :
               \A k \in (CacheKeys(disk.index) \cap CacheKeys(disk'.index))
                        \ {done'.key} :
                 ~(touch[k] > 0 /\ touch[r] > touch[k]) ]_vars

\* C29 (as claimed): a set removes rows from the index only when the sizes
\* in the index add up to more than 0.8 * max_size_bytes, and then its
\* cleanup leaves at most 0.6 * max_size_bytes in the index, or no row.
C29_EvictsOnlyAboveHighWater ==
    [][ IsDiskSet
          => LET total == TotalSize(disk.index)
                 c == CleanupIfNeeded(disk)
             IN  /\ Evicted # {}
                       => total * 10 > disk.max_size_bytes * 8
                 /\ total * 10 > disk.max_size_bytes * 8
                       => \/ TotalSize(c.index) * 10 <= disk.max_size_bytes * 6
                          \/ c.index = <<>> ]_vars

(***************************************************************************)
(* Claims about classify_connection (SpecClassify) and aggregate_security  *)
(* (SpecScan).                                                             *)
(***************************************************************************)

Positions(connections, P(_)) ==
    {i \in 1..Len(connections) : P(connections[i])}

C21_OneRecordPerDistinctValidId ==
    [][ /\ BulkReturn
              => ( /\ ResultIps(bulk.results) = UniqueIps(bulk.ips)
                   /\ Len(bulk.results) = Cardinality(UniqueIps(bulk.ips)) )
        /\ bulk'.pc = "running"
              => ( Cardinality({t \in Threads : th'[t].pc # "idle"})
                     <= bulk'.max_workers )
        /\ (bulk.pc = "running" /\ bulk'.pc = "running")
              => ( SubSeq(bulk'.results, 1, Len(bulk.results))
                     = bulk.results ) ]_vars

(***************************************************************************)
(* Claims about DiskCache across a crash, checked under SpecCrash.         *)
(***************************************************************************)

\* C30: when the process is killed at any point of a set, a delete or a
\* clear and started again, the index loaded has every entry the process
\* had in its index, written by the operations that were over, but for
\* the key of the operation in flight; and a get returns a value only for
\* a key whose file is there.
C30_CrashLosesAtMostInFlight ==
    [][ /\ \A t \in CrashThreads :
              Crash => \A k \in CacheKeys(disk.index) \ {th[t].key} :
                         k \in CacheKeys(disk'.index)
        /\ \A key \in CrashKeys :
              (CallDiskGet(key) /\ done'.ret # None)
                => disk.files[key] # NoFile ]_vars

(***************************************************************************)
(* Claims about DiskCache.get and the rows it removes, checked under       *)
(* SpecDisk.  done.deleted of a get tells that the get removed the row of  *)
(* its key.                                                                *)
(***************************************************************************)

(***************************************************************************)
(* The DiskCache driven directly over two keys and one value: an instance   *)
(* small enough to be explored with a longer clock and a larger directory.  *)
(***************************************************************************)
DiskPairKeys == {"k1", "k2"}

NextDiskPair ==
    \/ \E key \in DiskPairKeys : CallDiskGet(key)
    \/ \E key \in DiskPairKeys, ttl \in 0..MaxTTL : CallDiskSet(key, "v1", ttl)
    \/ \E key \in DiskPairKeys, ttl \in 0..MaxTTL, fault \in Faults :
          CallDiskSetFaulty(key, "v1", ttl, fault)
    \/ \E key \in DiskPairKeys : CallDiskDelete(key)
    \/ CallDiskClear
    \/ TickDisk

SpecDiskPair == InitDisk /\ [][NextDiskPair]_vars

\* C31: DiskCache.get of a key that has a row in the index and whose file is
\* missing or unreadable returns None and removes the row, so that the key
\* is no longer in the index; the rows of the other keys, and their order,
\* are as they were.
C31_MissingBlobIsMissAndRowRemoved ==
    [][ \A key \in Keys :
          ( /\ CallDiskGet(key)
            /\ key \in CacheKeys(disk.index)
            /\ disk.files[key] = NoFile )
            => /\ done'.ret = None
               /\ key \notin CacheKeys(disk'.index)
               /\ disk'.index = SelectSeq(disk.index, LAMBDA row : row.key # key)
               /\ \A k \in Keys \ {key} : disk'.files[k] = disk.files[k] ]_vars

\* C31 witness: before any entry can have run out, a get has just removed
\* the row of its key and returned None, and the row of another key is
\* still in the index.
C31_Witness ==
    /\ now = 0
    /\ done.op = "disk_get"
    /\ done.deleted
    /\ done.ret = None
    /\ done.key \notin CacheKeys(disk.index)
    /\ CacheKeys(disk.index) # {}

(***************************************************************************)
(* Claims about the frame of MemoryCache.get, checked under SpecMem.       *)
(***************************************************************************)

\* C33: a MemoryCache.get of a key whose entry has run out deletes the entry
\* and returns None; a get of a key that has no entry (as after that first
\* get) returns None and deletes nothing; in both cases the entries of the
\* other keys and their order are as they were.
C33_ExpiredDeletedOnceOthersKept ==
    [][ \A key \in Keys :
          (memHist'.op = "get" /\ memHist'.key = key)
            => /\ ( /\ key \in CacheKeys(mem.cache)
                    /\ IsExpired(EntryOf(mem.cache, key), now) )
                 => /\ memHist'.ret = None
                    /\ mem'.cache = SelectSeq(mem.cache,
                                              LAMBDA e : e.key # key)
               /\ key \notin CacheKeys(mem.cache)
                 => /\ memHist'.ret = None
                    /\ mem'.cache = mem.cache ]_vars

\* C33 witness: a get has just returned None and removed the entry of its
\* key, one that had run out, from a dictionary that holds the entry of
\* another key.
C33_Witness ==
    /\ memHist.op = "get"
    /\ memHist.ret = None
    /\ memHist.removed = {memHist.key}
    /\ mem.cache # <<>>

(***************************************************************************)
(* The MemoryCache with its statistics.  The record of the cache carries    *)
(* the three counters of __init__ beside the dictionary: _hits, _misses     *)
(* and _evictions.  Python integers do not overflow; the driver stops       *)
(* calling when a counter has reached MaxCount.                             *)
(***************************************************************************)
MaxCount == 3

StatsKeys == {"k1", "k2"}

\* MemoryCache.__init__ with self._hits = self._misses = self._evictions = 0
MemoryCacheStatsInit(max_size) ==
    [max_size |-> max_size, cache |-> <<>>,
     hits |-> 0, misses |-> 0, evictions |-> 0]

\* MemoryCache.get with its counters: self._misses += 1 on the two paths
\* that return None, self._hits += 1 on the path that returns the value.
StatsGet(m, key, t) ==
    LET r == MemoryGet(m, key, t)
        miss == \/ key \notin CacheKeys(m.cache)
                \/ IsExpired(EntryOf(m.cache, key), t)
    IN  [m |-> IF miss THEN [r.m EXCEPT !.misses = @ + 1]
                       ELSE [r.m EXCEPT !.hits = @ + 1],
         ret |-> r.ret]

\* A mutant of set: the eviction loop runs before the test for an existing
\* key.
StatsSetEvictsFirst(m, key, value, ttl, t) ==
    LET e == CacheEntry(key, value, t + ttl)
        kept == AfterEviction(m.cache, m.max_size)
        evicted == Len(m.cache) - Len(kept)
    IN  IF m.max_size <= 0
          THEN [m |-> [m EXCEPT !.cache = kept, !.evictions = @ + evicted],
                raised |-> TRUE]
        ELSE IF key \in CacheKeys(kept)
          THEN [m |-> [m EXCEPT !.cache = MovedToEnd(kept, e),
                                !.evictions = @ + evicted],
                raised |-> FALSE]
          ELSE [m |-> [m EXCEPT !.cache = Append(kept, e),
                                !.evictions = @ + evicted],
                raised |-> FALSE]

\* MemoryCache.set with its counter: self._evictions += 1 for every entry
\* the while loop deletes, and the early return for an existing key before
\* the loop.
StatsSet(m, key, value, ttl, t) ==
    LET r == MemorySet(m, key, value, ttl, t)
        evicted == IF key \in CacheKeys(m.cache) THEN 0
                   ELSE Len(m.cache) - Len(AfterEviction(m.cache, m.max_size))
    IN  [m |-> [r.m EXCEPT !.evictions = @ + evicted], raised |-> r.raised]

\* A mutant of clear: the statistics start again with the dictionary.
StatsClearResets(m) == MemoryCacheStatsInit(m.max_size)

\* MemoryCache.clear: self._cache.clear() and nothing else.
StatsClear(m) == MemoryClear(m)

InitStats ==
    /\ now = 0
    /\ cb = CircuitBreakerInit(1, 0, 1)
    /\ cbHist = CbHistInit
    /\ geo = GeoServiceInit(TRUE, GEO_CACHE_TTL, GEO_LOOKUP_LIMIT)
    /\ \E n \in 0..MaxMemSize : mem = MemoryCacheStatsInit(n)
    /\ touch = TouchInit
    /\ memHist = MemHistInit
    /\ disk = DiskCacheInit(MaxDiskBytes)
    /\ hyb = HybridCacheInit(0)
    /\ th = [t \in Threads |-> ThreadInit]
    /\ expect = [k \in Keys |-> Anything]
    /\ written = WrittenInit
    /\ done = NoneDone
    /\ scan = ScanInit
    /\ bulk = BulkInit
    /\ glob = GlobInit
    /\ locks = LocksInit

CallStatsGet(key) ==
    LET r == StatsGet(mem, key, now)
    IN  /\ mem.hits < MaxCount /\ mem.misses < MaxCount
        /\ mem' = r.m
        /\ memHist' = MemCall("get", key, None, 0, r.ret, FALSE, r.m)
        /\ UNCHANGED <<now, svcVars, written, auxVars, touch, hybVars>>

CallStatsSet(key, value, ttl) ==
    LET r == StatsSet(mem, key, value, ttl, now)
    IN  /\ mem.evictions < MaxCount
        /\ mem' = r.m
        /\ memHist' = MemCall("set", key, value, ttl, None, r.raised, r.m)
        /\ UNCHANGED <<now, svcVars, written, auxVars, touch, hybVars>>

CallStatsDelete(key) ==
    LET r == MemoryDelete(mem, key)
    IN  /\ mem' = r.m
        /\ memHist' = MemCall("delete", key, None, 0, r.ret, FALSE, r.m)
        /\ UNCHANGED <<now, svcVars, written, auxVars, touch, hybVars>>

CallStatsClear ==
    /\ mem' = StatsClear(mem)
    /\ memHist' = MemCall("clear", None, None, 0, None, FALSE, mem')
    /\ UNCHANGED <<now, svcVars, written, auxVars, touch, hybVars>>

CallStatsCleanupExpired ==
    LET r == MemoryCleanupExpired(mem, now)
    IN  /\ mem' = r.m
        /\ memHist' = MemCall("cleanup_expired", None, None, 0, r.ret, FALSE, r.m)
        /\ UNCHANGED <<now, svcVars, written, auxVars, touch, hybVars>>

NextStats ==
    \/ \E key \in StatsKeys : CallStatsGet(key)
    \/ \E key \in StatsKeys, ttl \in 0..MaxTTL : CallStatsSet(key, "v1", ttl)
    \/ \E key \in StatsKeys : CallStatsDelete(key)
    \/ CallStatsClear
    \/ CallStatsCleanupExpired
    \/ TickMem

SpecStats == InitStats /\ [][NextStats]_vars

\* C34: a set on a key that is already in the dictionary, also when the cache
\* holds max_size entries, evicts nothing: the keys held, their number and the
\* evictions counter are as before, the other entries keep their order, and
\* the key is the most recently used one, holding the new entry.
C34_ReplaceEvictsNothing ==
    [][ \A key \in StatsKeys :
          ( /\ memHist'.op = "set" /\ memHist'.key = key
            /\ key \in CacheKeys(mem.cache) )
            => /\ CacheKeys(mem'.cache) = CacheKeys(mem.cache)
               /\ Len(mem'.cache) = Len(mem.cache)
               /\ mem'.evictions = mem.evictions
               /\ memHist'.removed = {}
               /\ ~memHist'.raised
               /\ mem'.cache[Len(mem'.cache)] =
                     CacheEntry(key, memHist'.value, now + memHist'.ttl)
               /\ Without(mem'.cache, key) = Without(mem.cache, key) ]_vars

\* A set has just replaced the older of the two entries of a cache that was
\* full with them (max_size >= 1), and the evictions counter stands where an
\* earlier eviction left it.
C34_Witness ==
    /\ memHist.op = "set"
    /\ Len(mem.cache) = mem.max_size
    /\ mem.max_size >= 1
    /\ mem.cache[Len(mem.cache)].key = memHist.key
    /\ mem.cache[Len(mem.cache)].expires_at = now + 1
    /\ memHist.ttl = 1
    /\ now > 0
    /\ mem.evictions > 0

\* C35: no call on the cache lowers hits, misses or evictions; clear and
\* cleanup_expired leave the three as they are.
C35_CountersNeverDecrease ==
    [][ /\ mem'.hits >= mem.hits
        /\ mem'.misses >= mem.misses
        /\ mem'.evictions >= mem.evictions
        /\ memHist'.op \in {"clear", "cleanup_expired", "delete"}
             => /\ mem'.hits = mem.hits
                /\ mem'.misses = mem.misses
                /\ mem'.evictions = mem.evictions ]_vars

\* A clear has just emptied a cache whose three counters had all counted.
C35_Witness ==
    /\ memHist.op = "clear"
    /\ memHist.removed # {}
    /\ mem.hits > 0 /\ mem.misses > 0 /\ mem.evictions > 0

(***************************************************************************)
(* The HybridCache of one thread with its scheduling.  A thread that has    *)
(* entered get, set or delete runs the call to its end, and the clock goes  *)
(* on; whether and when a caller enters a call is left open.  The object    *)
(* starts no thread and no timer: _maybe_cleanup runs only as the last step *)
(* of a get that missed both tiers and of a set.                            *)
(***************************************************************************)
SeqInFlight ==
    \E t \in SeqThreads :
       \/ HybridGetDisk(t)
       \/ HybridGetPromote(t)
       \/ HybridGetCleanup(t)
       \/ HybridSetDisk(t)
       \/ \E fault \in Faults : HybridSetDiskFaulty(t, fault)
       \/ HybridSetCleanup(t)
       \/ HybridDeleteDisk(t)

SpecSeqFair ==
    /\ InitHybrid
    /\ [][NextSeq]_vars
    /\ WF_vars(TickSeq)
    /\ WF_vars(SeqInFlight)

\* C32: an entry of the memory tier that has expired does not stay there
\* for ever, also when no get, set or delete is issued any more: it is
\* eventually removed (or replaced by an entry that has not expired).
C32_ExpiredEventuallySwept ==
    \A key \in SeqKeys :
       ( /\ key \in CacheKeys(mem.cache)
         /\ IsExpired(EntryOf(mem.cache, key), now) )
         ~> ~( /\ key \in CacheKeys(mem.cache)
               /\ IsExpired(EntryOf(mem.cache, key), now) )

(***************************************************************************)
(* cache.py get_cache and geo.py get_geo_service called by several threads. *)
(* Neither function takes a lock: the test of the global, the construction  *)
(* of the object, the store into the global and the load for the return     *)
(* are separate steps, and another thread may run between any two of them   *)
(* (the constructors read the configuration and the index file).            *)
(* GeoService.__init__ calls get_cache() and builds a CircuitBreaker.       *)
(***************************************************************************)
GlobRest ==
    <<now, svcVars, memVars, disk, hyb, expect, written, done, scan, bulk,
      locks>>

\* get_cache(), line 396: if _global_cache is None; when it is not, line 404:
\* return _global_cache
CallGetCache(t) ==
    /\ th[t].pc = "idle"
    /\ IF glob.global_cache = 0
         THEN /\ th' = [th EXCEPT ![t].pc = "cache_new", ![t].op = "get_cache"]
              /\ UNCHANGED glob
         ELSE /\ glob' = [glob EXCEPT !.got_cache[t] = glob.global_cache]
              /\ UNCHANGED th
    /\ UNCHANGED GlobRest

\* get_cache(), lines 397-403: get_config() and HybridCache(...), the object
\* still in the thread's hand
CacheNew(t) ==
    /\ th[t].pc = "cache_new"
    /\ glob' = [glob EXCEPT !.caches = @ + 1, !.local[t] = glob.caches + 1]
    /\ th' = [th EXCEPT ![t].pc = "cache_store"]
    /\ UNCHANGED GlobRest

\* get_cache(), line 399: _global_cache = the object built
CacheStore(t) ==
    /\ th[t].pc = "cache_store"
    /\ glob' = [glob EXCEPT !.global_cache = glob.local[t]]
    /\ th' = [th EXCEPT ![t].pc = "cache_return"]
    /\ UNCHANGED GlobRest

\* get_cache(), line 404: return _global_cache, to the caller of get_cache()
\* or to GeoService.__init__ (self.cache = get_cache(), geo.py line 175)
CacheReturn(t) ==
    /\ th[t].pc = "cache_return"
    /\ IF th[t].op = "get_cache"
         THEN /\ glob' = [glob EXCEPT !.got_cache[t] = glob.global_cache,
                                      !.local[t] = 0]
              /\ th' = [th EXCEPT ![t] = ThreadInit]
         ELSE /\ glob' = [glob EXCEPT !.local[t] = glob.global_cache]
              /\ th' = [th EXCEPT ![t].pc = "svc_breaker"]
    /\ UNCHANGED GlobRest

\* get_geo_service(), line 455: if _geo_service is None; when it is not,
\* line 457: return _geo_service
CallGetGeoService(t) ==
    /\ th[t].pc = "idle"
    /\ IF glob.geo_service = 0
         THEN /\ th' = [th EXCEPT ![t].pc = "svc_cache",
                                  ![t].op = "get_geo_service"]
              /\ UNCHANGED glob
         ELSE /\ glob' = [glob EXCEPT !.got_service[t] = glob.geo_service]
              /\ UNCHANGED th
    /\ UNCHANGED GlobRest

\* GeoService.__init__, line 175: self.cache = get_cache(), up to the test
\* of _global_cache in get_cache()
SvcGetCache(t) ==
    /\ th[t].pc = "svc_cache"
    /\ IF glob.global_cache = 0
         THEN /\ th' = [th EXCEPT ![t].pc = "cache_new"]
              /\ UNCHANGED glob
         ELSE /\ glob' = [glob EXCEPT !.local[t] = glob.global_cache]
              /\ th' = [th EXCEPT ![t].pc = "svc_breaker"]
    /\ UNCHANGED GlobRest

\* GeoService.__init__, lines 176-196: self.circuit_breaker =
\* CircuitBreaker() and the rest of the constructor
SvcNew(t) ==
    /\ th[t].pc = "svc_breaker"
    /\ glob' = [glob EXCEPT
                  !.breakers = @ + 1,
                  !.services = Append(@, [cache |-> glob.local[t],
                                          circuit_breaker |-> glob.breakers + 1]),
                  !.local[t] = Len(glob.services) + 1]
    /\ th' = [th EXCEPT ![t].pc = "svc_store"]
    /\ UNCHANGED GlobRest

\* get_geo_service(), line 456: _geo_service = GeoService()
SvcStore(t) ==
    /\ th[t].pc = "svc_store"
    /\ glob' = [glob EXCEPT !.geo_service = glob.local[t]]
    /\ th' = [th EXCEPT ![t].pc = "svc_return"]
    /\ UNCHANGED GlobRest

\* get_geo_service(), line 457: return _geo_service
SvcReturn(t) ==
    /\ th[t].pc = "svc_return"
    /\ glob' = [glob EXCEPT !.got_service[t] = glob.geo_service,
                            !.local[t] = 0]
    /\ th' = [th EXCEPT ![t] = ThreadInit]
    /\ UNCHANGED GlobRest

NextGlob ==
    \/ \E t \in Threads : CallGetCache(t)
    \/ \E t \in Threads : CacheNew(t)
    \/ \E t \in Threads : CacheStore(t)
    \/ \E t \in Threads : CacheReturn(t)
    \/ \E t \in Threads : CallGetGeoService(t)
    \/ \E t \in Threads : SvcGetCache(t)
    \/ \E t \in Threads : SvcNew(t)
    \/ \E t \in Threads : SvcStore(t)
    \/ \E t \in Threads : SvcReturn(t)

SpecGlob == InitHybrid /\ [][NextGlob]_vars

\* C36: however the first calls of get_cache() and get_geo_service() of
\* several threads interleave, at most one HybridCache, one GeoService and
\* one CircuitBreaker are ever created, and all callers are handed the same
\* cache and the same service.
C36_OneInstanceForAll ==
    /\ glob.caches <= 1
    /\ Len(glob.services) <= 1
    /\ glob.breakers <= 1
    /\ \A t, u \in Threads :
          /\ (glob.got_cache[t] # 0 /\ glob.got_cache[u] # 0)
               => glob.got_cache[t] = glob.got_cache[u]
          /\ (glob.got_service[t] # 0 /\ glob.got_service[u] # 0)
               => glob.got_service[t] = glob.got_service[u]

(***************************************************************************)
(* The locks.  MemoryCache, DiskCache, HybridCache and CircuitBreaker each  *)
(* hold a threading.RLock, GeoService a threading.Lock for its _stats.      *)
(* A call is taken by the locks it enters and leaves, in order; the paths   *)
(* of a method are the orders its branches give.  The data are left out:    *)
(* every branch may be taken.                                               *)
(***************************************************************************)
Enter(l) == <<[op |-> "acquire", lock |-> l]>>
Leave(l) == <<[op |-> "release", lock |-> l]>>

\* with self._lock: ... of a method that calls nothing that locks
Within(l) == Enter(l) \o Leave(l)

\* MemoryCache.get, set, delete, cleanup_expired
MemoryPath == Within("memory")

\* DiskCache.delete
DiskDeletePath == Within("disk")

\* DiskCache.get: under its lock it returns, or calls self.delete(key) for a
\* row that ran out or whose file is missing or unreadable
DiskGetPaths ==
    {Within("disk"), Enter("disk") \o DiskDeletePath \o Leave("disk")}

\* DiskCache.set: under its lock, _cleanup_if_needed, which calls
\* self.delete(key) for an entry it evicts
DiskSetPaths ==
    {Within("disk"), Enter("disk") \o DiskDeletePath \o Leave("disk")}

\* HybridCache._maybe_cleanup: under self._lock, self._memory
\* .cleanup_expired() when the interval has passed
MaybeCleanupPaths ==
    {Within("hybrid"), Enter("hybrid") \o MemoryPath \o Leave("hybrid")}

\* HybridCache.get, when the memory tier missed: the disk tier, and then
\* the promotion to the memory tier or _maybe_cleanup
HybridGetMissPaths ==
    {MemoryPath \o d \o c : d \in DiskGetPaths, c \in MaybeCleanupPaths}

HybridGetHitPaths == {MemoryPath, MemoryPath \o Within("disk") \o MemoryPath}

\* HybridCache.set
HybridSetPaths ==
    {MemoryPath \o d \o c : d \in DiskSetPaths, c \in MaybeCleanupPaths}

\* HybridCache.delete
HybridDeletePath == MemoryPath \o DiskDeletePath

\* with self._stats_lock: self._stats[...] += 1
StatsPath == Within("stats")

\* CircuitBreaker.can_execute, record_success, record_failure
BreakerPath == Within("breaker")

\* A mutant of the end of get_location: the breaker's lock is held around
\* self.cache.set(...).
StoreAndRecordNested(s) == Enter("breaker") \o s \o Leave("breaker")

\* get_location, lines 296-302: self.cache.set(...) on path s of the cache,
\* then self.circuit_breaker.record_success()
StoreAndRecord(s) == s \o BreakerPath

\* get_location after the cache was passed: the count of the miss,
\* can_execute, and then the rejection, or the providers (no lock) followed
\* by the store and record_success, or by the error count and record_failure
AfterCachePaths ==
    {StatsPath \o BreakerPath \o StatsPath}
      \cup {StatsPath \o BreakerPath \o StoreAndRecord(s) : s \in HybridSetPaths}
      \cup {StatsPath \o BreakerPath \o StatsPath \o BreakerPath}

\* get_location for a valid ip: a hit of the cache and its count, or a miss
\* (or skip_cache) and the rest
GetLocationPaths ==
    {h \o StatsPath : h \in HybridGetHitPaths}
      \cup {h \o a : h \in HybridGetMissPaths \cup {<<>>}, a \in AfterCachePaths}

\* The calls made on the HybridCache by others than get_location
CachePaths ==
    HybridGetHitPaths \cup HybridGetMissPaths \cup HybridSetPaths
      \cup {HybridDeletePath}

LockRest ==
    <<now, svcVars, memVars, disk, hyb, th, expect, written, done, scan,
      bulk, glob>>

\* A thread enters get_location.
LockGetLocation(t) ==
    /\ locks.todo[t] = <<>>
    /\ \E p \in GetLocationPaths : locks' = [locks EXCEPT !.todo[t] = p]
    /\ UNCHANGED LockRest

\* A thread enters get, set or delete of the HybridCache.
LockCacheCall(t) ==
    /\ locks.todo[t] = <<>>
    /\ \E p \in CachePaths : locks' = [locks EXCEPT !.todo[t] = p]
    /\ UNCHANGED LockRest

\* lock.acquire(): an RLock is free or the thread's own, the Lock of the
\* statistics is free
CanAcquire(t, l) ==
    \/ locks.held[l].owner = None
    \/ l # "stats" /\ locks.held[l].owner = t

Acquire(t) ==
    /\ locks.todo[t] # <<>>
    /\ Head(locks.todo[t]).op = "acquire"
    /\ LET l == Head(locks.todo[t]).lock
       IN  /\ CanAcquire(t, l)
           /\ locks' = [locks EXCEPT
                          !.held[l] = [owner |-> t, count |-> @.count + 1],
                          !.todo[t] = Tail(@)]
    /\ UNCHANGED LockRest

\* lock.release()
Release(t) ==
    /\ locks.todo[t] # <<>>
    /\ Head(locks.todo[t]).op = "release"
    /\ LET l == Head(locks.todo[t]).lock
       IN  locks' = [locks EXCEPT
                       !.held[l] = IF @.count = 1
                                     THEN [owner |-> None, count |-> 0]
                                     ELSE [@ EXCEPT !.count = @ - 1],
                       !.todo[t] = Tail(@)]
    /\ UNCHANGED LockRest

NextLocks ==
    \/ \E t \in Threads : LockGetLocation(t)
    \/ \E t \in Threads : LockCacheCall(t)
    \/ \E t \in Threads : Acquire(t)
    \/ \E t \in Threads : Release(t)

SpecLocks == InitHybrid /\ [][NextLocks]_vars

TierLocks == {"memory", "disk", "hybrid"}

Holds(t, l) == locks.held[l].owner = t

\* The lock thread t is about to enter, None when its next step is none.
Wants(t) ==
    IF locks.todo[t] # <<>> /\ Head(locks.todo[t]).op = "acquire"
      THEN Head(locks.todo[t]).lock ELSE None

Blocked(t) == Wants(t) # None /\ ~CanAcquire(t, Wants(t))

\* Every thread of S waits for a lock that a thread of S holds.
Deadlocked(S) ==
    /\ S # {}
    /\ \A t \in S : Blocked(t) /\ locks.held[Wants(t)].owner \in S

\* C37: no thread is inside a lock of a cache tier while it enters (or
\* holds) the lock of the breaker, nor inside the breaker's lock while it
\* enters a tier's lock, and no set of threads waits for one another's locks.
C37_LocksNotNestedNoDeadlock ==
    /\ \A t \in Threads :
          /\ Wants(t) = "breaker" => \A l \in TierLocks : ~Holds(t, l)
          /\ Wants(t) \in TierLocks => ~Holds(t, "breaker")
          /\ Holds(t, "breaker") => \A l \in TierLocks : ~Holds(t, l)
    /\ \A S \in SUBSET Threads : ~Deadlocked(S)

\* One thread is inside the HybridCache's lock and waits for the memory
\* tier's lock; the other thread holds that lock, in the set of a
\* get_location that has record_success still before it.
C37_Witness ==
    \E t, u \in Threads :
       /\ t # u
       /\ Holds(t, "hybrid") /\ Blocked(t) /\ Wants(t) = "memory"
       /\ Holds(u, "memory") /\ ~Blocked(u)
       /\ \E i \in 1..Len(locks.todo[u]) : locks.todo[u][i].lock = "breaker"

\* C38: a get_location call that the breaker admitted queries the providers
\* in the order ipapi.co, ip-api.com: ipapi.co only as the first, ip-api.com
\* only when ipapi.co was skipped (no library) or answered without success,
\* and no provider after one that answered 'success'; a call that returns
\* has queried at most each provider once, in that order.
C38_ProvidersInPriorityOrder ==
    [][ /\ \A t \in Threads :
              ( /\ th'[t].providers # th[t].providers
                /\ th'[t].providers # <<>> )
                => /\ th[t].pc \in {"geo_ipapi", "geo_ip_api_com"}
                   /\ th[t].value # STATUS_SUCCESS
                   /\ th'[t].providers \in
                        {<<PROVIDER_IPAPI>>,
                         <<PROVIDER_IPAPI, PROVIDER_IP_API_COM>>,
                         <<PROVIDER_IP_API_COM>>}
                   /\ th'[t].providers = <<PROVIDER_IP_API_COM>> => ~geo.ipapi
                   /\ th'[t].providers = <<PROVIDER_IPAPI>> => geo.ipapi
        /\ ( /\ done'.op = "get_location"
             /\ done'.providers = <<PROVIDER_IPAPI>> )
             => done'.ret = STATUS_SUCCESS ]_vars

\* A call has returned the success of ip-api.com, queried after ipapi.co
\* had answered without success.
C38_Witness ==
    /\ done.op = "get_location"
    /\ done.providers = <<PROVIDER_IPAPI, PROVIDER_IP_API_COM>>
    /\ done.ret = STATUS_SUCCESS
    /\ ~done.cached

\* C39: a get_location call that the breaker admitted (the calls that went
\* on to query a provider) records exactly one outcome, in the step in
\* which it returns: record_success for a result 'success' or 'fail',
\* record_failure for any other.  A call that returns without having been
\* admitted leaves the breaker as it is, but for what the refusing
\* can_execute itself does; and the breaker changes in no step other than
\* a can_execute and the return of an admitted call.
C39_OneOutcomePerAdmittedCall ==
    [][ /\ ( /\ done'.op = "get_location"
             /\ done'.providers # <<>> )
             => cb' = IF done'.ret \in {STATUS_SUCCESS, STATUS_FAIL}
                        THEN RecordSuccess(cb)
                        ELSE RecordFailure(cb, now)
        /\ ( /\ done'.op = "get_location"
             /\ done'.providers = <<>> )
             => \/ cb' = cb
                \/ /\ done'.message = MSG_UNAVAILABLE
                   /\ ~CanExecute(cb, now).ret
                   /\ cb' = CanExecute(cb, now).cb
        /\ cb' # cb
             => \/ done'.op = "get_location" /\ done'.providers # <<>>
                \/ \E t \in Threads :
                      /\ th[t].pc = "geo_can_execute"
                      /\ th'[t].pc # "geo_can_execute"
                      /\ cb' = CanExecute(cb, now).cb ]_vars

\* An admitted call has returned 'error' and its record_failure has opened
\* the breaker.
C39_Witness ==
    /\ done.op = "get_location"
    /\ done.providers # <<>>
    /\ done.ret = STATUS_ERROR
    /\ cb.state = STATE_OPEN
    /\ cb.failure_count = cb.failure_threshold
    /\ cb.last_failure_time = now

(***************************************************************************)
(* The breaker under get_location with its scheduling.  Three threads call  *)
(* get_location(ip, skip_cache=True), so that every call reaches            *)
(* can_execute.  Each thread is a thread of the operating system: a call    *)
(* that was entered runs on to its return, whatever the other threads do,   *)
(* and a thread that has returned calls again.                              *)
(***************************************************************************)
MaxProbeTime == 1

ProbeThreads == {"t1", "t2", "t3"}
ProbeIP == "1.1.1.1"

InitProbe ==
    /\ now = 0
    /\ cb = CircuitBreakerInit(1, 0, 1)
    /\ cbHist = CbHistInit
    /\ geo = GeoServiceInit(FALSE, GEO_CACHE_TTL, GEO_LOOKUP_LIMIT)
    /\ mem = MemoryCacheInit(MaxMemSize)
    /\ touch = TouchInit
    /\ memHist = MemHistInit
    /\ disk = DiskCacheInit(MaxDiskBytes)
    /\ hyb = HybridCacheInit(0)
    /\ th = [t \in ProbeThreads |-> ThreadInit]
    /\ expect = [k \in Keys |-> Anything]
    /\ written = WrittenInit
    /\ done = NoneDone
    /\ scan = ScanInit
    /\ bulk = BulkInit
    /\ glob = GlobInit
    /\ locks = LocksInit

\* The steps of thread t inside get_location, from can_execute to the
\* return.
ProbeInFlight(t) ==
    \/ GeoCanExecute(t)
    \/ \E outcome \in {STATUS_SUCCESS, STATUS_FAIL} : GeoIpapi(t, outcome)
    \/ \E outcome \in {STATUS_SUCCESS, STATUS_ERROR} : GeoIpApiCom(t, outcome)
    \/ GeoSetMemory(t)
    \/ GeoSetDisk(t)
    \/ GeoSetCleanup(t)
    \/ GeoRecord(t)

TickProbe == Advance(MaxProbeTime)

NextProbe ==
    \/ \E t \in ProbeThreads : GetLocation(t, ProbeIP, TRUE)
    \/ \E t \in ProbeThreads : GeoCanExecute(t)
    \/ \E t \in ProbeThreads, outcome \in {STATUS_SUCCESS, STATUS_FAIL} :
          GeoIpapi(t, outcome)
    \/ \E t \in ProbeThreads, outcome \in {STATUS_SUCCESS, STATUS_ERROR} :
          GeoIpApiCom(t, outcome)
    \/ \E t \in ProbeThreads : GeoSetMemory(t)
    \/ \E t \in ProbeThreads : GeoSetDisk(t)
    \/ \E t \in ProbeThreads : GeoSetCleanup(t)
    \/ \E t \in ProbeThreads : GeoRecord(t)
    \/ TickProbe

SpecProbe ==
    /\ InitProbe
    /\ [][NextProbe]_vars
    /\ \A t \in ProbeThreads : WF_vars(GetLocation(t, ProbeIP, TRUE))
    /\ \A t \in ProbeThreads : WF_vars(ProbeInFlight(t))

\* C40: with callers that keep arriving and admitted calls that all return,
\* a breaker that is HalfOpen does not stay HalfOpen for ever: it becomes
\* Closed or Open.
C40_HalfOpenEventuallyLeft ==
    (cb.state = STATE_HALF_OPEN) ~> (cb.state \in {STATE_CLOSED, STATE_OPEN})

\* The breaker is HalfOpen with every slot taken and has just refused a
\* call, while the calls it admitted are still under way.
C40_Witness ==
    /\ cb.state = STATE_HALF_OPEN
    /\ cb.half_open_calls = cb.half_open_max_calls
    /\ done.op = "get_location"
    /\ done.message = MSG_UNAVAILABLE
    /\ \E t \in ProbeThreads : th[t].pc \notin {"idle", "geo_can_execute"}

====
